---- MODULE Spec2Model ----
(***************************************************************************)
(* A model of agx, an AgentX (RFC 2741) subagent library written in Go.    *)
(*                                                                         *)
(* The specifications share the variables below:                           *)
(*   Spec       the session: Connect, Register/Unregister/Disconnect from  *)
(*              concurrent caller goroutines, and the dispatcher goroutine *)
(*              (rootMessageHandler) with the closed event;                *)
(*   GetSpec    the dispatcher serving Get and GetNext PDUs against the    *)
(*              handler registry (doHandleGet, getNextVarBind, varSearch); *)
(*   CodecSpec  the wire codec: constructors, MarshalBinary and            *)
(*              UnmarshalBinary over byte sequences;                       *)
(*   ServeSpec  the dispatcher serving the master's requests (Get, TestSet,*)
(*              CommitSet, CleanupSet, ...) one whole PDU per read;        *)
(*   StreamSpec the same dispatcher when the byte stream is cut into reads *)
(*              at any place;                                              *)
(*   WriteSpec  the goroutines that write PDUs to the socket.              *)
(*                                                                         *)
(* Go strings are sequences of byte values, so that string comparison and  *)
(* slicing are what Go computes.                                           *)
(***************************************************************************)
EXTENDS Integers, Sequences, FiniteSets, TLC

VARIABLES
  connState,           \* outcome of Connect: "init", "ok", "error", "panic"
  conn,                \* c.conn: "unset", "open", "closed" (closed locally)
  sessionId,           \* c.sessionId
  registrations,       \* c.registrations: sequence of OID strings
  closed,              \* c.closed
  closedSignals,       \* values delivered on the channel c.Closed
  wire,                \* PDUs written to the socket, in order
  dpc,                 \* position of the dispatcher goroutine
  callers,             \* position and locals of each caller goroutine
  peerClosed,          \* the dispatcher has read io.EOF: the master closed its end
  nops,                \* API calls (Register, Unregister, Disconnect) started
  getHandlers,         \* keys of c.getHandlers
  getSubtreeHandlers,  \* keys of c.getSubtreeHandlers
  lastReq,             \* GetSpec: the request being answered
  calls,               \* GetSpec: the handler invocations made for it
  openOutcome,         \* what happened to the Open exchange of Connect
  cin,                 \* CodecSpec: the constructor call under test
  cout,                \* CodecSpec: what the codec produced for it
  testSetHandlers,     \* keys of c.testSetHandlers
  commitSetHandler,    \* c.commitSetHandler is not nil
  cleanupSetHandler,   \* c.cleanupSetHandler is not nil
  stream,              \* bytes the master has sent that no Read has returned yet
  sent,                \* the PDUs the master has sent, in order
  served,              \* what the dispatcher did with each message recvMsg returned
  pending,             \* WriteSpec: the conn.Write calls each sender has still to make
  socket               \* WriteSpec: the chunks written to the socket, in order

vars == <<connState, conn, sessionId, registrations, closed, closedSignals,
          wire, dpc, callers, peerClosed, nops, openOutcome, getHandlers,
          getSubtreeHandlers, lastReq, calls, cin, cout, testSetHandlers,
          commitSetHandler, cleanupSetHandler, stream, sent, served, pending,
          socket>>

sessionVars == <<connState, conn, sessionId, registrations, closed,
                 closedSignals, wire, dpc, callers, peerClosed, nops,
                 openOutcome>>
registryVars == <<getHandlers, getSubtreeHandlers>>
getVars == <<lastReq, calls>>
codecVars == <<cin, cout>>
setHandlerVars == <<testSetHandlers, commitSetHandler, cleanupSetHandler>>
agentVars == <<stream, sent, served>>
writeVars == <<pending, socket>>

(***************************************************************************)
(* Bounds of the model.                                                    *)
(***************************************************************************)
MaxRanges == 1      \* SearchRanges in a Get or GetNext PDU
MaxOps == 2         \* API calls the caller goroutines make in all
MaxDescr == 5       \* bytes in an Open description or a Register context

(***************************************************************************)
(* Go strings as byte sequences.                                           *)
(***************************************************************************)
Dot == 46           \* '.'
Minus == 45         \* '-'
LetterX == 120      \* 'x', a byte that is neither a digit nor a sign
Digit(d) == 48 + d

RECURSIVE Itoa(_)
\* strconv.Itoa
Itoa(n) ==
  IF n < 0 THEN <<Minus>> \o Itoa(0 - n)
  ELSE IF n < 10 THEN <<Digit(n)>>
  ELSE Itoa(n \div 10) \o <<Digit(n % 10)>>

RECURSIVE StrLess(_, _)
\* Go's < on strings: bytewise lexicographic, a proper prefix is smaller
StrLess(a, b) ==
  IF b = <<>> THEN FALSE
  ELSE IF a = <<>> THEN TRUE
  ELSE IF Head(a) # Head(b) THEN Head(a) < Head(b)
  ELSE StrLess(Tail(a), Tail(b))

\* Go's > on strings
StrGreater(a, b) == StrLess(b, a)

\* Go's >= on strings
StrGeq(a, b) == ~StrLess(a, b)

\* strings.HasPrefix
StrHasPrefix(s, p) == Len(p) <= Len(s) /\ SubSeq(s, 1, Len(p)) = p

RECURSIVE Split(_, _)
\* strings.Split(s, sep) for a one-byte separator: "" splits into [""]
Split(s, sep) ==
  IF \A i \in 1..Len(s) : s[i] # sep THEN <<s>>
  ELSE LET i == CHOOSE j \in 1..Len(s) :
                  s[j] = sep /\ \A k \in 1..(j - 1) : s[k] # sep
       IN <<SubSeq(s, 1, i - 1)>> \o Split(SubSeq(s, i + 1, Len(s)), sep)

IsDigit(c) == c >= 48 /\ c <= 57

RECURSIVE DigitsValue(_, _)
\* the value of a run of decimal digits, saturating above the int32 range
DigitsValue(s, acc) ==
  IF s = <<>> THEN acc
  ELSE IF acc > 214748364 THEN 2147483647
  ELSE IF acc = 214748364 /\ Head(s) - 48 > 7 THEN 2147483647
  ELSE DigitsValue(Tail(s), acc * 10 + (Head(s) - 48))

\* strconv.ParseInt(x, 10, 32): an optional sign, then one or more digits,
\* the value in the int32 range
ParseInt(x) ==
  LET neg == x # <<>> /\ Head(x) = Minus
      body == IF neg THEN Tail(x) ELSE x
      wellFormed == body # <<>> /\ \A i \in 1..Len(body) : IsDigit(body[i])
      \* more than 10 digits is out of range unless they are leading zeros;
      \* the model's inputs have at most 10 digits
      mag == IF wellFormed THEN DigitsValue(body, 0) ELSE 0
      inRange == wellFormed /\ Len(body) <= 10 /\
                 (mag < 2147483647 \/
                  (mag = 2147483647 /\ body = Itoa(2147483647)))
  IN [ok |-> inRange, val |-> IF ~inRange THEN 0
                              ELSE IF neg THEN 0 - mag ELSE mag]

(***************************************************************************)
(* Subtree (the OID type of protocol.go).                                  *)
(***************************************************************************)
NilSubtree == [NSubid |-> 0, Prefix |-> 0, Zero |-> 0, Reserved |-> 0,
               SubIdentifiers |-> <<>>]

\* NewSubtree: the error result leaves no Subtree
NewSubtree(oid) ==
  LET ids == Split(oid, Dot)
      bad == \E i \in 1..Len(ids) : ~ParseInt(ids[i]).ok
  IN IF bad THEN [err |-> TRUE, t |-> NilSubtree]
     ELSE [err |-> FALSE,
           t |-> [NSubid |-> Len(ids) % 256, Prefix |-> 0, Zero |-> 0,
                  Reserved |-> 0,
                  SubIdentifiers |-> [i \in 1..Len(ids) |-> ParseInt(ids[i]).val]]]

RECURSIVE JoinDots(_)
JoinDots(ids) ==
  IF Len(ids) = 1 THEN Itoa(ids[1])
  ELSE Itoa(ids[1]) \o <<Dot>> \o JoinDots(Tail(ids))

\* Subtree.String, defined for a Subtree with at least one subidentifier
SubtreeString(s) ==
  IF s.Prefix # 0
  THEN JoinDots(<<1, 3, 6, 1, s.Prefix>>) \o <<Dot>> \o JoinDots(s.SubIdentifiers)
  ELSE JoinDots(s.SubIdentifiers)

(***************************************************************************)
(* Protocol constants (protocol.go).                                       *)
(***************************************************************************)
OpenPDU == 1
ClosePDU == 2
RegisterPDU == 3
UnregisterPDU == 4
GetPDU == 5
GetNextPDU == 6
ResponsePDU == 18
NonDefaultContext == 8
NetworkByteOrder == 16
CloseTransactionId == 86
RegisterTransactionId == 47
UnregisterTransactionId == 74
CloseReasonShutdown == 5
HeaderSize == 20
ConnectionTimeout == 10
BasePriority == 47
IntegerT == 2
OctetStringT == 4
Gauge32T == 66
NoSuchObjectT == 128
EndOfMibViewT == 130

(***************************************************************************)
(* The session: Connect, the caller goroutines, the dispatcher goroutine.  *)
(***************************************************************************)
\* two caller goroutines share the Connection
Callers == {1, 2}

\* a goroutine has panicked: the Go runtime ends the whole process
Crashed ==
  \/ connState = "panic"
  \/ dpc = "panic"
  \/ \E i \in Callers : callers[i].pc = "panic"

IdleCaller == [pc |-> "idle", op |-> "none", oid |-> <<>>, pid |-> 0,
               snap |-> <<>>, ret |-> "none", sendErr |-> "none"]

\* what can happen to the Open exchange
ConnectOutcomes == {"dialFail", "badId", "sendFail", "readFail",
                    "shortHeader", "respError", "respOk"}

\* the outcomes in which the Open exchange has failed
OpenFailures == {"sendFail", "readFail", "shortHeader", "respError"}

SessionIds == {7}

ConnectResult(outcome) ==
  IF outcome \in {"dialFail", "badId"}
  THEN \* net.Dial or NewOpenMessage failed: return nil, err
       "error"
  ELSE IF outcome \in {"sendFail", "readFail", "shortHeader"}
  THEN \* sendrecvMsg returned nil, nil, err; err is overwritten unread and
       \* buf[HeaderSize:] of the nil buffer panics
       "panic"
  ELSE \* a Response came back: the 1024-byte buffer always holds a payload,
       \* and the error field of the payload is never examined
       "ok"

\* Connect without c.sessionId = hdr.SessionId
ConnectNoSessionId(outcome, sid) ==
  /\ connState = "init"
  /\ openOutcome' = outcome
  /\ connState' = ConnectResult(outcome)
  /\ conn' = IF outcome = "dialFail" THEN "unset" ELSE "open"
  /\ IF ConnectResult(outcome) = "ok"
     THEN dpc' = "recv"
     ELSE UNCHANGED dpc
  /\ UNCHANGED <<sessionId, registrations, closed, closedSignals, wire,
                 callers, peerClosed, nops>>
  /\ UNCHANGED <<registryVars, getVars, codecVars, setHandlerVars, agentVars,
                 writeVars>>

Connect(outcome, sid) ==
  /\ connState = "init"
  /\ openOutcome' = outcome
  /\ connState' = ConnectResult(outcome)
  /\ conn' = IF outcome = "dialFail" THEN "unset" ELSE "open"
  /\ IF ConnectResult(outcome) = "ok"
     THEN /\ sessionId' = sid
          /\ dpc' = "recv"      \* go rootMessageHandler(c)
     ELSE UNCHANGED <<sessionId, dpc>>
  /\ UNCHANGED <<registrations, closed, closedSignals, wire, callers,
                 peerClosed, nops>>
  /\ UNCHANGED <<registryVars, getVars, codecVars, setHandlerVars, agentVars, writeVars>>

\* sendMsg: the PDUs that reach the socket, given the PDU to send
SendMsgWire(pdu) ==
  IF closed THEN wire                    \* return io.EOF
  ELSE IF conn # "open" THEN wire        \* c.conn.Write fails
  ELSE Append(wire, pdu)

\* sendMsg: the error it returns
SendMsgErr ==
  IF closed THEN "EOF"
  ELSE IF conn # "open" THEN "write"
  ELSE "none"

\* NewRegisterMessage / NewUnregisterMessage, header fields only
RegisterHeader(unregister) ==
  [Type |-> IF unregister THEN UnregisterPDU ELSE RegisterPDU,
   TransactionId |-> IF unregister THEN UnregisterTransactionId
                     ELSE RegisterTransactionId]

\* doRegister up to line 344: build the message, read len(c.registrations)
RegisterStart(i, oid, unregister) ==
  /\ connState = "ok" /\ ~Crashed
  /\ callers[i].pc = "idle" /\ nops < MaxOps
  /\ nops' = nops + 1
  /\ IF NewSubtree(oid).err
     THEN \* m is nil and m.Header.PacketId = ... dereferences it
          callers' = [callers EXCEPT ![i] =
                        [@ EXCEPT !.pc = "panic",
                                  !.op = IF unregister THEN "unregister" ELSE "register",
                                  !.oid = oid, !.ret = "none",
                                  !.sendErr = "none"]]
     ELSE callers' = [callers EXCEPT ![i] =
                        [@ EXCEPT !.pc = "appendRead",
                                  !.op = IF unregister THEN "unregister" ELSE "register",
                                  !.oid = oid, !.ret = "none",
                                  !.sendErr = "none",
                                  !.pid = Len(registrations)]]
  /\ UNCHANGED <<connState, conn, sessionId, registrations, closed,
                 closedSignals, wire, dpc, peerClosed, openOutcome>>
  /\ UNCHANGED <<registryVars, getVars, codecVars, setHandlerVars, agentVars, writeVars>>

\* doRegister line 345, first half: append loads the slice
RegisterAppendRead(i) ==
  /\ ~Crashed
  /\ callers[i].pc = "appendRead"
  /\ callers' = [callers EXCEPT ![i] =
                   [@ EXCEPT !.pc = "appendWrite", !.snap = registrations]]
  /\ UNCHANGED <<connState, conn, sessionId, registrations, closed,
                 closedSignals, wire, dpc, peerClosed, nops, openOutcome>>
  /\ UNCHANGED <<registryVars, getVars, codecVars, setHandlerVars, agentVars, writeVars>>

\* doRegister line 345, second half: the grown slice is stored back
RegisterAppendWrite(i) ==
  /\ ~Crashed
  /\ callers[i].pc = "appendWrite"
  /\ registrations' = Append(callers[i].snap, callers[i].oid)
  /\ callers' = [callers EXCEPT ![i] = [@ EXCEPT !.pc = "send", !.snap = <<>>]]
  /\ UNCHANGED <<connState, conn, sessionId, closed, closedSignals, wire,
                 dpc, peerClosed, nops, openOutcome>>
  /\ UNCHANGED <<registryVars, getVars, codecVars, setHandlerVars, agentVars, writeVars>>

\* the value doRegister returns once sendMsg has returned sendErr
RegisterReturn(sendErr) == "nil"

\* doRegister lines 347-354: stamp the session id, sendMsg, return nil
RegisterSend(i) ==
  /\ ~Crashed
  /\ callers[i].pc = "send"
  /\ LET h == RegisterHeader(callers[i].op = "unregister")
         pdu == [Type |-> h.Type, TransactionId |-> h.TransactionId,
                 PacketId |-> callers[i].pid, SessionId |-> sessionId,
                 Oid |-> callers[i].oid]
     IN /\ wire' = SendMsgWire(pdu)
        /\ callers' = [callers EXCEPT ![i] =
                         [@ EXCEPT !.pc = "idle", !.oid = <<>>, !.pid = 0,
                                   !.sendErr = SendMsgErr,
                                   !.ret = RegisterReturn(SendMsgErr)]]
  /\ UNCHANGED <<connState, conn, sessionId, registrations, closed,
                 closedSignals, dpc, peerClosed, nops, openOutcome>>
  /\ UNCHANGED <<registryVars, getVars, codecVars, setHandlerVars, agentVars, writeVars>>

\* Disconnect: send a Close PDU, log any error, return nothing
Disconnect(i) ==
  /\ connState = "ok" /\ ~Crashed
  /\ callers[i].pc = "idle" /\ nops < MaxOps
  /\ nops' = nops + 1
  /\ LET pdu == [Type |-> ClosePDU, TransactionId |-> CloseTransactionId,
                 PacketId |-> 1, SessionId |-> sessionId, Oid |-> <<>>]
     IN /\ wire' = SendMsgWire(pdu)
        /\ callers' = [callers EXCEPT ![i] =
                         [@ EXCEPT !.op = "disconnect", !.oid = <<>>,
                                   !.pid = 0,
                                   !.sendErr = SendMsgErr, !.ret = "void"]]
  /\ UNCHANGED <<connState, conn, sessionId, registrations, closed,
                 closedSignals, dpc, peerClosed, openOutcome>>
  /\ UNCHANGED <<registryVars, getVars, codecVars, setHandlerVars, agentVars, writeVars>>

\* <-c.Closed in a caller, meeting the dispatcher blocked in c.Closed <- true
\* (the channel is unbuffered: the send completes only with a receiver)
ReceiveClosed(i) ==
  /\ ~Crashed
  /\ callers[i].pc = "idle"
  /\ dpc \in {"signalEof", "signalClose"}
  /\ closedSignals' = closedSignals + 1
  /\ dpc' = IF dpc = "signalEof" THEN "setClosedEof" ELSE "setClosedClose"
  /\ UNCHANGED <<connState, conn, sessionId, registrations, closed, wire,
                 callers, peerClosed, nops, openOutcome>>
  /\ UNCHANGED <<registryVars, getVars, codecVars, setHandlerVars, agentVars, writeVars>>

\* packet ids the master may put in a Response
PacketIds == -1..1

\* the PDUs the master sends in the session specification: Responses (to
\* Close, Register, Unregister, or carrying another transaction id) and a
\* PDU of a type the dispatcher does not serve
InboundKinds == {"closeResp", "registerResp", "unregisterResp",
                 "otherResp", "unknownType"}

\* what a read of the socket can give: a PDU, or io.EOF once the master has
\* closed its end
ReadKinds == InboundKinds \cup {"eof"}

\* the handlers indexing c.registrations[h.PacketId + 1]
RegisterResponseFaultsNext(pid) == pid + 1 < 0 \/ pid + 1 >= Len(registrations)

\* handleRegisterResponse / handleUnregisterResponse:
\* c.registrations[h.PacketId] panics when the index is out of range
RegisterResponseFaults(pid) == pid < 0 \/ pid >= Len(registrations)

\* rootMessageHandler: one turn of the read loop
DispatcherRecv(kind, pid) ==
  /\ ~Crashed
  /\ dpc = "recv"
  /\ peerClosed => kind = "eof"     \* after EOF every read gives EOF
  /\ peerClosed' = (peerClosed \/ (conn # "closed" /\ kind = "eof"))
  /\ IF conn = "closed"
     THEN \* Read on the socket this side has closed: an error that is not
          \* io.EOF, logged, and the loop continues
          UNCHANGED <<conn, dpc>>
     ELSE IF kind = "eof"
     THEN \* io.EOF: go on to c.Closed <- true
          /\ dpc' = "signalEof"
          /\ UNCHANGED conn
     ELSE IF kind = "closeResp"
     THEN \* handleCloseResponse: c.conn.Close(), then c.Closed <- true
          /\ conn' = "closed"
          /\ dpc' = "signalClose"
     ELSE IF kind \in {"registerResp", "unregisterResp"}
     THEN /\ dpc' = IF RegisterResponseFaults(pid) THEN "panic" ELSE "recv"
          /\ UNCHANGED conn
     ELSE \* no case matches, or the default case logs
          UNCHANGED <<conn, dpc>>
  /\ UNCHANGED <<connState, sessionId, registrations, closed, closedSignals,
                 wire, callers, nops, openOutcome>>
  /\ UNCHANGED <<registryVars, getVars, codecVars, setHandlerVars, agentVars, writeVars>>

\* DispatcherSetClosedEof without the return: the loop reads again
DispatcherSetClosedEofNoReturn ==
  /\ ~Crashed
  /\ dpc = "setClosedEof"
  /\ closed' = TRUE
  /\ dpc' = "recv"
  /\ UNCHANGED <<connState, conn, sessionId, registrations, closedSignals,
                 wire, callers, peerClosed, nops, openOutcome>>
  /\ UNCHANGED <<registryVars, getVars, codecVars, setHandlerVars, agentVars, writeVars>>

\* rootMessageHandler lines 440-441: c.closed = true; return
DispatcherSetClosedEof ==
  /\ ~Crashed
  /\ dpc = "setClosedEof"
  /\ closed' = TRUE
  /\ dpc' = "returned"
  /\ UNCHANGED <<connState, conn, sessionId, registrations, closedSignals,
                 wire, callers, peerClosed, nops, openOutcome>>
  /\ UNCHANGED <<registryVars, getVars, codecVars, setHandlerVars, agentVars, writeVars>>

\* handleCloseResponse line 490: c.closed = true; back to the read loop
DispatcherSetClosedClose ==
  /\ ~Crashed
  /\ dpc = "setClosedClose"
  /\ closed' = TRUE
  /\ dpc' = "recv"
  /\ UNCHANGED <<connState, conn, sessionId, registrations, closedSignals,
                 wire, callers, peerClosed, nops, openOutcome>>
  /\ UNCHANGED <<registryVars, getVars, codecVars, setHandlerVars, agentVars, writeVars>>

\* OID strings callers register: "1.2", "1.10" and the malformed "1.x"
RegisterOids == {<<Digit(1), Dot, Digit(2)>>,
                 <<Digit(1), Dot, Digit(1), Digit(0)>>,
                 <<Digit(1), Dot, LetterX>>}

Init ==
  /\ connState = "init"
  /\ conn = "unset"
  /\ sessionId = 0
  /\ registrations = <<>>
  /\ closed = FALSE
  /\ closedSignals = 0
  /\ wire = <<>>
  /\ dpc = "off"
  /\ callers = [i \in Callers |-> IdleCaller]
  /\ peerClosed = FALSE
  /\ nops = 0
  /\ openOutcome = "none"
  /\ getHandlers = {}
  /\ getSubtreeHandlers = {}
  /\ lastReq = <<>>
  /\ calls = <<>>
  /\ cin = <<>>
  /\ cout = <<>>
  /\ testSetHandlers = {}
  /\ commitSetHandler = FALSE
  /\ cleanupSetHandler = FALSE
  /\ stream = <<>>
  /\ sent = <<>>
  /\ served = <<>>
  /\ pending = <<>>
  /\ socket = <<>>

Next ==
  \/ \E o \in ConnectOutcomes, sid \in SessionIds : Connect(o, sid)
  \/ \E i \in Callers, oid \in RegisterOids, u \in BOOLEAN :
        RegisterStart(i, oid, u)
  \/ \E i \in Callers : RegisterAppendRead(i)
  \/ \E i \in Callers : RegisterAppendWrite(i)
  \/ \E i \in Callers : RegisterSend(i)
  \/ \E i \in Callers : Disconnect(i)
  \/ \E i \in Callers : ReceiveClosed(i)
  \/ \E k \in ReadKinds, pid \in PacketIds : DispatcherRecv(k, pid)
  \/ DispatcherSetClosedEof
  \/ DispatcherSetClosedClose

Spec == Init /\ [][Next]_vars

(***************************************************************************)
(* The dispatcher serving Get and GetNext.                                 *)
(***************************************************************************)
GetHandlerType == 1
GetSubtreeHandlerType == 2

\* OIDs as subidentifier sequences, and their dotted strings
Oid1 == <<1>>
Oid1_2 == <<1, 2>>
Oid1_9 == <<1, 9>>
Oid1_10 == <<1, 10>>
Oid2 == <<2>>

\* keys callers install point-Get and subtree-Get handlers at
PointKeys == {JoinDots(Oid1_2), JoinDots(Oid1_9), JoinDots(Oid1_10)}
SubtreeKeys == {JoinDots(Oid1_2), JoinDots(Oid2)}

\* start OIDs the master asks for
RequestOids == {Oid1, Oid1_2, Oid1_9, Oid1_10, Oid2}

SubtreeOf(ids) == [NSubid |-> Len(ids) % 256, Prefix |-> 0, Zero |-> 0,
                   Reserved |-> 0, SubIdentifiers |-> ids]

\* Connection.OnGet
OnGet(oid) ==
  /\ connState = "ok"
  /\ getHandlers' = getHandlers \cup {oid}
  /\ UNCHANGED <<sessionVars, getSubtreeHandlers, getVars, codecVars, setHandlerVars, agentVars, writeVars>>

\* Connection.OnGetSubtree
OnGetSubtree(oid) ==
  /\ connState = "ok"
  /\ getSubtreeHandlers' = getSubtreeHandlers \cup {oid}
  /\ UNCHANGED <<sessionVars, getHandlers, getVars, codecVars, setHandlerVars, agentVars, writeVars>>

\* Subtree.WireSize
SubtreeWireSize(t) == 4 + Len(t.SubIdentifiers) * 4

\* VarBind.WireSize
VarBindWireSize(v) ==
  4 + SubtreeWireSize(v.Name) +
  (IF v.Type = IntegerT THEN 4
   ELSE IF v.Type = OctetStringT THEN 4 + Len(v.Data.Octets)
   ELSE IF v.Type = Gauge32T THEN 4
   ELSE 0)

\* NoSuchObjectVarBind; From names the handler a VarBind came from, none here
NoSuchObjectVarBind(oid) ==
  [Type |-> NoSuchObjectT, Name |-> oid, Data |-> <<>>, From |-> <<>>]

\* EndOfMibViewVarBind
EndOfMibViewVarBind(oid) ==
  [Type |-> EndOfMibViewT, Name |-> oid, Data |-> <<>>, From |-> <<>>]

\* a GetHandler installed at key, called with oid: the caller's function,
\* taken to bind an Integer to the OID it is given
GetHandlerResult(key, oid) ==
  [Type |-> IntegerT, Name |-> oid, Data |-> 47, From |-> key]

\* a GetSubtreeHandler installed at key, called with oid: the caller's
\* function either binds a value or answers EndOfMibView
GetSubtreeHandlerResult(key, oid, res) ==
  IF res = "eom" THEN EndOfMibViewVarBind(oid)
  ELSE [Type |-> IntegerT, Name |-> oid, Data |-> 47, From |-> key]

RECURSIVE SortStrings(_)
\* the strings of a set in ascending order of Go's <
SortStrings(S) ==
  IF S = {} THEN <<>>
  ELSE LET m == CHOOSE x \in S : \A y \in S : ~StrLess(y, x)
       IN <<m>> \o SortStrings(S \ {m})

RECURSIVE BundleOrders(_, _, _)
\* getNextVarBind: the handler bundles sorted by HandlerBundles.Less, which
\* compares the Oid strings; sort.Sort is not stable, so two bundles with
\* the same Oid may come out in either order
BundleOrders(keys, sub, pt) ==
  IF keys = <<>> THEN {<<>>}
  ELSE LET k == Head(keys)
           s == [Oid |-> k, Type |-> GetSubtreeHandlerType]
           p == [Oid |-> k, Type |-> GetHandlerType]
           heads == IF k \in sub /\ k \in pt THEN {<<s, p>>, <<p, s>>}
                    ELSE IF k \in sub THEN {<<s>>}
                    ELSE {<<p>>}
       IN {h \o r : h \in heads, r \in BundleOrders(Tail(keys), sub, pt)}

RECURSIVE varSearch(_, _, _, _)
\* varSearch; subRes[key] is what the subtree handler at key answers.
\* The result carries the VarBind, the handler invocations made, and fault
\* when oid[:len(h.Oid)] slices past the end of oid (a runtime panic).
varSearch(oid, handlers, next, subRes) ==
  LET subtree == NewSubtree(oid).t
  IN IF handlers = <<>>
     THEN [fault |-> FALSE, vb |-> EndOfMibViewVarBind(subtree), calls |-> <<>>]
     ELSE
       LET h == Head(handlers)
           h_subtree == NewSubtree(h.Oid).t
       IN IF h.Type = GetSubtreeHandlerType
          THEN IF Len(h.Oid) > Len(oid)
               THEN [fault |-> TRUE, vb |-> EndOfMibViewVarBind(subtree),
                     calls |-> <<>>]
               ELSE IF StrGeq(h.Oid, SubSeq(oid, 1, Len(h.Oid)))
               THEN LET vb == GetSubtreeHandlerResult(h.Oid, subtree, subRes[h.Oid])
                        call == [Oid |-> h.Oid, Type |-> h.Type,
                                 Arg |-> subtree, Next |-> next]
                    IN IF vb.Type # EndOfMibViewT
                       THEN [fault |-> FALSE, vb |-> vb, calls |-> <<call>>]
                       ELSE LET r == varSearch(oid, Tail(handlers), next, subRes)
                            IN [r EXCEPT !.calls = <<call>> \o @]
               ELSE varSearch(oid, Tail(handlers), next, subRes)
          ELSE IF StrGeq(h.Oid, oid)
               THEN IF next
                    THEN varSearch(oid, Tail(handlers), FALSE, subRes)
                    ELSE [fault |-> FALSE,
                          vb |-> GetHandlerResult(h.Oid, h_subtree),
                          calls |-> <<[Oid |-> h.Oid, Type |-> h.Type,
                                       Arg |-> h_subtree, Next |-> next]>>]
               ELSE varSearch(oid, Tail(handlers), next, subRes)

\* getNextVarBind: every result the sort order and the subtree handlers'
\* answers allow
getNextVarBind(oid, next) ==
  {varSearch(oid, hs, next, sr) :
     hs \in BundleOrders(SortStrings(getSubtreeHandlers \cup getHandlers),
                         getSubtreeHandlers, getHandlers),
     sr \in [getSubtreeHandlers -> {"eom", "val"}]}

RECURSIVE WireSizeSum(_)
\* doHandleGet: the sum of vb.WireSize() over the VarBinds appended
WireSizeSum(vbs) ==
  IF vbs = <<>> THEN 0 ELSE VarBindWireSize(Head(vbs)) + WireSizeSum(Tail(vbs))

\* doHandleGet: the Response built for request header h around the VarBinds
GetResponse(h, sid, vbs) ==
  [Header |-> [Version |-> 1, Type |-> ResponsePDU,
               Flags |-> IF (h.Flags \div NetworkByteOrder) % 2 = 1
                         THEN NetworkByteOrder ELSE 0,
               Reserved |-> 0,
               SessionId |-> sid,
               TransactionId |-> h.TransactionId,
               PacketId |-> h.PacketId,
               PayloadLength |-> 8 + WireSizeSum(vbs)],
   SysUptime |-> 0, Error |-> 0, Index |-> 0, VarBindList |-> vbs]

RECURSIVE GetOutcomes(_, _)
\* doHandleGet, the loop over the SearchRangeList: the VarBinds appended, in
\* order
GetOutcomes(ranges, next) ==
  IF ranges = <<>>
  THEN {[fault |-> FALSE, vbs |-> <<>>, calls |-> <<>>]}
  ELSE {[fault |-> a.fault \/ b.fault,
         vbs |-> <<a.vb>> \o b.vbs,
         calls |-> a.calls \o b.calls] :
          a \in getNextVarBind(SubtreeString(Head(ranges)), next),
          b \in GetOutcomes(Tail(ranges), next)}

\* rootMessageHandler reads a Get or GetNext PDU; handleGet / handleGetNext
\* / doHandleGet answer it
HandleGet(req, out) ==
  /\ connState = "ok" /\ ~Crashed
  /\ dpc = "recv"
  /\ lastReq = <<>>
  /\ out \in GetOutcomes(req.SearchRangeList, req.Type = GetNextPDU)
  /\ lastReq' = req
  /\ calls' = out.calls
  /\ IF out.fault
     THEN /\ dpc' = "panic"
          /\ UNCHANGED wire
     ELSE /\ wire' = SendMsgWire(GetResponse(req, sessionId, out.vbs))
          /\ UNCHANGED dpc
  /\ UNCHANGED <<connState, conn, sessionId, registrations, closed,
                 closedSignals, callers, peerClosed, nops, openOutcome>>
  /\ UNCHANGED <<registryVars, codecVars, setHandlerVars, agentVars, writeVars>>

RECURSIVE SeqsUpTo(_, _)
\* the non-empty sequences over S of length at most n
SeqsUpTo(S, n) ==
  IF n = 0 THEN {}
  ELSE {<<x>> : x \in S} \cup
       {<<x>> \o t : x \in S, t \in SeqsUpTo(S, n - 1)}

\* the Get and GetNext PDUs the master sends
GetRequests ==
  {[Type |-> t, Flags |-> NetworkByteOrder, TransactionId |-> 5,
    PacketId |-> 3, SearchRangeList |-> rs] :
     t \in {GetPDU, GetNextPDU},
     rs \in SeqsUpTo({SubtreeOf(o) : o \in RequestOids}, MaxRanges)}

\* a Connection after a successful Connect, no handler installed yet
GetInit ==
  /\ connState = "ok"
  /\ conn = "open"
  /\ sessionId = 7
  /\ registrations = <<>>
  /\ closed = FALSE
  /\ closedSignals = 0
  /\ wire = <<>>
  /\ dpc = "recv"
  /\ callers = [i \in Callers |-> IdleCaller]
  /\ peerClosed = FALSE
  /\ nops = 0
  /\ openOutcome = "respOk"
  /\ getHandlers = {}
  /\ getSubtreeHandlers = {}
  /\ lastReq = <<>>
  /\ calls = <<>>
  /\ cin = <<>>
  /\ cout = <<>>
  /\ testSetHandlers = {}
  /\ commitSetHandler = FALSE
  /\ cleanupSetHandler = FALSE
  /\ stream = <<>>
  /\ sent = <<>>
  /\ served = <<>>
  /\ pending = <<>>
  /\ socket = <<>>

GetStep ==
  \/ lastReq = <<>> /\ \E k \in PointKeys : OnGet(k)
  \/ lastReq = <<>> /\ \E k \in SubtreeKeys : OnGetSubtree(k)
  \/ \E req \in GetRequests :
        \E out \in GetOutcomes(req.SearchRangeList, req.Type = GetNextPDU) :
          HandleGet(req, out)

GetSpec == GetInit /\ [][GetStep]_vars

(***************************************************************************)
(* Claims about Get and GetNext.                                           *)
(***************************************************************************)
RECURSIVE OidLess(_, _)
\* OID order: lexicographic on the subidentifier sequences
OidLess(a, b) ==
  IF b = <<>> THEN FALSE
  ELSE IF a = <<>> THEN TRUE
  ELSE IF Head(a) # Head(b) THEN Head(a) < Head(b)
  ELSE OidLess(Tail(a), Tail(b))

\* the subidentifiers a handler key denotes
KeyIds(k) == NewSubtree(k).t.SubIdentifiers

\* the request has been answered with a Response
Answered == lastReq # <<>> /\ wire # <<>>

\* C1: with only point-Get handlers registered, the VarBind a GetNext at o
\* is answered with comes from the handler at the least registered OID
\* strictly greater than o in OID order, and is EndOfMibView named o when
\* no registered OID is greater.
C1_GetNextLeastGreater ==
  (Answered /\ lastReq.Type = GetNextPDU /\ getSubtreeHandlers = {}) =>
    \A j \in 1..Len(lastReq.SearchRangeList) :
      LET o == lastReq.SearchRangeList[j].SubIdentifiers
          greater == {k \in getHandlers : OidLess(o, KeyIds(k))}
          vb == wire[1].VarBindList[j]
      IN IF greater = {}
         THEN vb.Type = EndOfMibViewT /\ vb.Name.SubIdentifiers = o
         ELSE vb.From = CHOOSE k \in greater :
                          \A k2 \in greater : ~OidLess(KeyIds(k2), KeyIds(k))

\* C2: a Get at an OID o with no point-Get handler at o is answered
\* NoSuchObject named o whatever else is registered, and with a point-Get
\* handler at o that handler is called with o and its VarBind is used.
C2_GetExactOrNoSuchObject ==
  (lastReq # <<>> /\ lastReq.Type = GetPDU) =>
    /\ Answered
    /\ \A j \in 1..Len(lastReq.SearchRangeList) :
         LET x == lastReq.SearchRangeList[j]
             o == SubtreeString(x)
             vb == wire[1].VarBindList[j]
         IN IF o \notin getHandlers
            THEN vb.Type = NoSuchObjectT /\ vb.Name = x
            ELSE /\ vb = GetHandlerResult(o, x)
                 /\ \E c \in 1..Len(calls) :
                      /\ calls[c].Oid = o
                      /\ calls[c].Type = GetHandlerType
                      /\ calls[c].Arg = x

\* The Go scheduler runs every runnable goroutine: a step the dispatcher or a
\* caller can take on its own is eventually taken.  Whether a caller ever
\* receives from c.Closed is the caller's choice, so ReceiveClosed is not
\* fair.
FairSpec ==
  /\ Spec
  /\ WF_vars(\E k \in ReadKinds, pid \in PacketIds : DispatcherRecv(k, pid))
  /\ WF_vars(DispatcherSetClosedEof)
  /\ WF_vars(DispatcherSetClosedClose)
  /\ \A i \in Callers :
        WF_vars(RegisterAppendRead(i) \/ RegisterAppendWrite(i) \/ RegisterSend(i))

(***************************************************************************)
(* Claims about the session.                                               *)
(***************************************************************************)
RegisterPDUsOnWire ==
  {k \in DOMAIN wire : wire[k].Type \in {RegisterPDU, UnregisterPDU}}

\* C5: every Register PDU sent carries transaction id 47 and every
\* Unregister PDU 74, its packet id indexes the OID of its call in
\* registrations, and no two calls share a packet id, under any interleaving
\* of concurrent calls.
C5_PacketIdsIdentifyCalls ==
  /\ \A k \in RegisterPDUsOnWire :
        /\ wire[k].TransactionId =
              (IF wire[k].Type = RegisterPDU THEN 47 ELSE 74)
        /\ wire[k].PacketId < Len(registrations)
        /\ registrations[wire[k].PacketId + 1] = wire[k].Oid
  /\ \A k, l \in RegisterPDUsOnWire :
        k # l => wire[k].PacketId # wire[l].PacketId

\* C6: when the Open exchange fails (send or read failure, malformed
\* response, or a Response with error # 0) Connect returns an error, there
\* is no Connection in use and no dispatcher has been started.
C6_OpenFailureLeavesNoSession ==
  openOutcome \in OpenFailures => (connState = "error" /\ dpc = "off")

\* C7: the closed event is delivered on Connection.Closed at most once, and
\* exactly once by the time the session is marked closed or the read loop
\* has ended.
C7_ClosedSignalledOnce ==
  /\ closedSignals <= 1
  /\ (closed \/ dpc = "returned") => closedSignals = 1

\* the dispatcher has handled the master's Response to Close and delivered
\* the event
C7_Witness == closed /\ conn = "closed" /\ closedSignals = 1

\* C8: after the dispatcher has read EOF the session is eventually marked
\* closed, whether or not a caller waits for the closed event.
C8_EofLeadsToClosed == (dpc = "signalEof") ~> closed

\* C9: once the session is marked closed, register, unregister and
\* disconnect write nothing to the socket and do not close it again, and a
\* register or unregister whose send was refused returns an error.
C9_ClosedSendReported ==
  [][/\ closed => (wire' = wire /\ conn' = conn)
     /\ \A i \in Callers :
          (/\ callers'[i].op \in {"register", "unregister"}
           /\ callers'[i].sendErr = "EOF")
          => callers'[i].ret = "err"]_vars

\* C10: register or unregister with a string that is not a dotted OID
\* returns an error to the caller, sends no PDU and leaves registrations
\* unchanged.
C10_BadOidReturnsError ==
  [][\A i \in Callers, oid \in RegisterOids, u \in BOOLEAN :
        (RegisterStart(i, oid, u) /\ NewSubtree(oid).err)
        => /\ callers'[i].pc = "idle"
           /\ callers'[i].ret = "err"
           /\ wire' = wire
           /\ registrations' = registrations]_vars

(***************************************************************************)
(* The wire codec (protocol.go) over byte sequences.                       *)
(***************************************************************************)
\* binary.Write of an int32, big-endian, two's complement
BE32(v) ==
  LET w == IF v >= 0 THEN v ELSE v + 2147483647 + 1
      top == IF v >= 0 THEN w \div 16777216 ELSE 128 + w \div 16777216
  IN <<top, (w \div 65536) % 256, (w \div 256) % 256, w % 256>>

\* binary.Write of an int16, big-endian, two's complement
BE16(v) ==
  LET w == IF v >= 0 THEN v ELSE v + 65536
  IN <<w \div 256, w % 256>>

\* binary.Read of an int32 from four bytes
FromBE32(b) ==
  IF b[1] >= 128
  THEN ((b[1] - 128) * 16777216 + b[2] * 65536 + b[3] * 256 + b[4])
       - 2147483647 - 1
  ELSE b[1] * 16777216 + b[2] * 65536 + b[3] * 256 + b[4]

\* binary.Read of an int16 from two bytes
FromBE16(b) ==
  LET w == b[1] * 256 + b[2] IN IF w >= 32768 THEN w - 65536 ELSE w

\* buf[i:]
Drop(buf, i) == SubSeq(buf, i + 1, Len(buf))

RECURSIVE Flatten(_)
Flatten(ss) == IF ss = <<>> THEN <<>> ELSE Head(ss) \o Flatten(Tail(ss))

Zeros(n) == [i \in 1..n |-> 0]

NilHeader == [Version |-> 0, Type |-> 0, Flags |-> 0, Reserved |-> 0,
              SessionId |-> 0, TransactionId |-> 0, PacketId |-> 0,
              PayloadLength |-> 0]

\* Header.MarshalBinary
HeaderMarshal(h) ==
  <<h.Version, h.Type, h.Flags, h.Reserved>> \o BE32(h.SessionId) \o
  BE32(h.TransactionId) \o BE32(h.PacketId) \o BE32(h.PayloadLength)

\* Header.UnmarshalBinary: binary.Read fails on fewer than 20 bytes
HeaderUnmarshal(buf) ==
  IF Len(buf) < HeaderSize
  THEN [err |-> TRUE, n |-> Len(buf), v |-> NilHeader]
  ELSE [err |-> FALSE, n |-> HeaderSize,
        v |-> [Version |-> buf[1], Type |-> buf[2], Flags |-> buf[3],
               Reserved |-> buf[4],
               SessionId |-> FromBE32(SubSeq(buf, 5, 8)),
               TransactionId |-> FromBE32(SubSeq(buf, 9, 12)),
               PacketId |-> FromBE32(SubSeq(buf, 13, 16)),
               PayloadLength |-> FromBE32(SubSeq(buf, 17, 20))]]

\* Subtree.MarshalBinary
SubtreeMarshal(t) ==
  <<t.NSubid, t.Prefix, t.Zero, t.Reserved>> \o
  Flatten([i \in 1..Len(t.SubIdentifiers) |-> BE32(t.SubIdentifiers[i])])

\* Subtree.UnmarshalBinary into a zero Subtree
SubtreeUnmarshal(buf) ==
  IF Len(buf) < 4 THEN [err |-> TRUE, n |-> Len(buf), v |-> NilSubtree]
  ELSE LET cnt == buf[1]
           have == (Len(buf) - 4) \div 4
           got == IF have < cnt THEN have ELSE cnt
           ids == [i \in 1..got |-> FromBE32(SubSeq(buf, 4 * i + 1, 4 * i + 4))]
           t == [NSubid |-> buf[1], Prefix |-> buf[2], Zero |-> buf[3],
                 Reserved |-> buf[4], SubIdentifiers |-> ids]
       IN IF have < cnt
          THEN [err |-> TRUE, n |-> Len(buf) - (4 + 4 * got), v |-> t]
          ELSE [err |-> FALSE, n |-> 4 + 4 * cnt, v |-> t]

\* OctetString.Pad appending nothing
PadLenNone(octets) == 0

\* OctetString.Pad: the bytes appended (the len == 0 branch is never reached,
\* r == 0 returning first)
PadLen(octets) ==
  IF Len(octets) % 4 = 0 THEN 0 ELSE 4 - (Len(octets) % 4)

\* OctetString.Pad: the octets afterwards
Padded(octets) == octets \o Zeros(PadLen(octets))

NilOctetString == [OctetStringLength |-> 0, Octets |-> <<>>]

\* NewOctetString
NewOctetString(bs) == [OctetStringLength |-> Len(bs), Octets |-> Padded(bs)]

\* OctetString.MarshalBinary
OctetStringMarshal(o) == BE32(o.OctetStringLength) \o Padded(o.Octets)

\* the octets UnmarshalBinary leaves without its closing s.Pad()
OctetStringUnmarshalNoPad(raw) == raw

\* the octets UnmarshalBinary has read, after its closing s.Pad()
OctetStringUnmarshalPad(raw) == Padded(raw)

\* OctetString.UnmarshalBinary into a zero OctetString
OctetStringUnmarshal(buf) ==
  IF Len(buf) < 4 THEN [err |-> TRUE, n |-> 0, v |-> NilOctetString]
  ELSE LET len == FromBE32(SubSeq(buf, 1, 4))
           want == IF len < 0 THEN 0 ELSE len
           have == Len(buf) - 4
       IN IF have < want
          THEN [err |-> TRUE, n |-> have + 4,
                v |-> [OctetStringLength |-> len, Octets |-> Drop(buf, 4)]]
          ELSE LET raw == SubSeq(buf, 5, 4 + want)
               IN [err |-> FALSE,
                   n |-> 4 + len + PadLen(raw),
                   v |-> [OctetStringLength |-> len,
                          Octets |-> OctetStringUnmarshalPad(raw)]]

\* an absent *string or *int32 is <<>>, a present one is <<value>>
Nil == <<>>
Some(v) == <<v>>

\* 4 + 4*NSubid computed in Go's byte arithmetic
ByteSubtreeSize(nsubid) == (4 + 4 * nsubid) % 256

\* the Subtree part of NewOpenMessage, which parses the id itself
OpenId(id) ==
  IF id = Nil THEN [err |-> FALSE, t |-> NilSubtree] ELSE NewSubtree(id[1])

\* NewOpenMessage
NewOpenMessage(id, descr) ==
  LET sub == OpenId(id)
      desc == IF descr = Nil THEN NilOctetString
              ELSE [OctetStringLength |-> Len(descr[1]),
                    Octets |-> Padded(descr[1])]
      plen == 4 + (IF id = Nil THEN 0 ELSE ByteSubtreeSize(sub.t.NSubid))
                + (IF descr = Nil THEN 0
                   ELSE 4 + Len(descr[1]) + PadLen(descr[1]))
  IN [err |-> sub.err,
      m |-> [Header |-> [NilHeader EXCEPT !.Version = 1, !.Type = OpenPDU,
                                          !.Flags = NetworkByteOrder,
                                          !.PayloadLength = plen],
             Timeout |-> 5, Reserved |-> <<0, 0, 0>>,
             Id |-> sub.t, Desc |-> desc]]

\* OpenMessage.MarshalBinary
OpenMarshal(m) ==
  HeaderMarshal(m.Header) \o <<m.Timeout>> \o m.Reserved \o
  SubtreeMarshal(m.Id) \o OctetStringMarshal(m.Desc)

NilOpen == [Header |-> NilHeader, Timeout |-> 0, Reserved |-> <<0, 0, 0>>,
            Id |-> NilSubtree, Desc |-> NilOctetString]

\* OpenMessage.UnmarshalBinary into a zero OpenMessage
OpenUnmarshal(buf) ==
  LET h == HeaderUnmarshal(buf)
  IN IF h.err THEN [err |-> TRUE, n |-> 0, m |-> NilOpen]
     ELSE IF Len(buf) < h.n + 1
     THEN [err |-> TRUE, n |-> h.n, m |-> [NilOpen EXCEPT !.Header = h.v]]
     ELSE
       LET m1 == [NilOpen EXCEPT !.Header = h.v, !.Timeout = buf[h.n + 1]]
           i1 == h.n + 4
           id == SubtreeUnmarshal(Drop(buf, i1))
       IN IF id.err THEN [err |-> TRUE, n |-> i1, m |-> [m1 EXCEPT !.Id = id.v]]
          ELSE
            LET i2 == i1 + id.n
                d == OctetStringUnmarshal(Drop(buf, i2))
            IN IF d.err
               THEN [err |-> TRUE, n |-> i2,
                     m |-> [m1 EXCEPT !.Id = id.v, !.Desc = d.v]]
               ELSE [err |-> FALSE, n |-> i2 + d.n,
                     m |-> [m1 EXCEPT !.Id = id.v, !.Desc = d.v]]

\* NewCloseMessage
NewCloseMessage(reason, sid) ==
  [Header |-> [NilHeader EXCEPT !.Version = 1, !.Type = ClosePDU,
                                !.Flags = NetworkByteOrder,
                                !.PayloadLength = 4, !.SessionId = sid,
                                !.PacketId = 1,
                                !.TransactionId = CloseTransactionId],
   Reason |-> reason, Reserved |-> <<0, 0, 0>>]

\* CloseMessage.MarshalBinary
CloseMarshal(m) == HeaderMarshal(m.Header) \o <<m.Reason>> \o m.Reserved

NilClose == [Header |-> NilHeader, Reason |-> 0, Reserved |-> <<0, 0, 0>>]

\* CloseMessage.UnmarshalBinary into a zero CloseMessage
CloseUnmarshal(buf) ==
  LET h == HeaderUnmarshal(buf)
  IN IF h.err THEN [err |-> TRUE, n |-> 0, m |-> NilClose]
     ELSE IF Len(buf) < h.n + 1
     THEN [err |-> TRUE, n |-> h.n, m |-> [NilClose EXCEPT !.Header = h.v]]
     ELSE [err |-> FALSE, n |-> h.n + 4,
           m |-> [NilClose EXCEPT !.Header = h.v, !.Reason = buf[h.n + 1]]]

\* NewRegisterMessage; RangeSubid is never set, with or without upperBound
NewRegisterMessage(subtree, context, upperBound) ==
  LET sub == NewSubtree(subtree)
      ctx == IF context = Nil THEN Nil ELSE Some(NewOctetString(context[1]))
      plen == 4 + (IF context = Nil THEN 0 ELSE 4 + Len(ctx[1].Octets))
                + ByteSubtreeSize(sub.t.NSubid)
                + (IF upperBound = Nil THEN 0 ELSE 4)
  IN [err |-> sub.err,
      m |-> [Header |-> [NilHeader EXCEPT
                           !.Version = 1, !.Type = RegisterPDU,
                           !.Flags = IF context = Nil THEN NetworkByteOrder
                                     ELSE NetworkByteOrder + NonDefaultContext,
                           !.PayloadLength = plen,
                           !.TransactionId = RegisterTransactionId],
             Context |-> ctx,
             Timeout |-> ConnectionTimeout, Priority |-> BasePriority,
             RangeSubid |-> 0, Reserved |-> 0,
             Subtree |-> sub.t, UpperBound |-> upperBound]]

\* NewUnregisterMessage
NewUnregisterMessage(subtree, context, upperBound) ==
  LET r == NewRegisterMessage(subtree, context, upperBound)
  IN IF r.err THEN r
     ELSE [r EXCEPT !.m.Header.Type = UnregisterPDU,
                    !.m.Header.TransactionId = UnregisterTransactionId]

\* RegisterMessage.MarshalBinary
RegisterMarshal(m) ==
  HeaderMarshal(m.Header) \o
  (IF m.Context = Nil THEN <<>> ELSE OctetStringMarshal(m.Context[1])) \o
  <<m.Timeout, m.Priority, m.RangeSubid, m.Reserved>> \o
  SubtreeMarshal(m.Subtree) \o
  (IF m.UpperBound = Nil THEN <<>> ELSE BE32(m.UpperBound[1]))

NilRegister == [Header |-> NilHeader, Context |-> Nil, Timeout |-> 0,
                Priority |-> 0, RangeSubid |-> 0, Reserved |-> 0,
                Subtree |-> NilSubtree, UpperBound |-> Nil]

\* RegisterMessage.UnmarshalBinary into a zero RegisterMessage; a failed
\* header, context or subtree read returns a nil error
RegisterUnmarshal(buf) ==
  LET h == HeaderUnmarshal(buf)
  IN IF h.err THEN [err |-> FALSE, n |-> 0, m |-> NilRegister]
     ELSE
       LET m0 == [NilRegister EXCEPT !.Header = h.v]
           hasCtx == (h.v.Flags \div NonDefaultContext) % 2 = 1
           c == IF hasCtx THEN OctetStringUnmarshal(Drop(buf, h.n))
                ELSE [err |-> FALSE, n |-> 0, v |-> NilOctetString]
           m1 == IF hasCtx THEN [m0 EXCEPT !.Context = Some(c.v)] ELSE m0
           i1 == h.n + c.n
       IN IF c.err THEN [err |-> FALSE, n |-> h.n, m |-> m1]
          ELSE IF Len(buf) < i1 + 4
          THEN [err |-> TRUE, n |-> i1, m |-> m1]
          ELSE
            LET m2 == [m1 EXCEPT !.Timeout = buf[i1 + 1],
                                 !.Priority = buf[i1 + 2],
                                 !.RangeSubid = buf[i1 + 3],
                                 !.Reserved = buf[i1 + 4]]
                i2 == i1 + 4
                t == SubtreeUnmarshal(Drop(buf, i2))
                m3 == [m2 EXCEPT !.Subtree = t.v]
            IN IF t.err THEN [err |-> FALSE, n |-> i2, m |-> m3]
               ELSE IF m3.RangeSubid # 0
               THEN \* binary.Read is handed a **int32, which it rejects
                    [err |-> TRUE, n |-> i2 + t.n,
                     m |-> [m3 EXCEPT !.UpperBound = Some(0)]]
               ELSE [err |-> FALSE, n |-> i2 + t.n, m |-> m3]

\* VarBind.MarshalBinary: only Integer, OctetString and Gauge32 carry data
VarBindMarshal(v) ==
  BE16(v.Type) \o BE16(0) \o SubtreeMarshal(v.Name) \o
  (IF v.Type = IntegerT THEN BE32(v.Data)
   ELSE IF v.Type = OctetStringT THEN OctetStringMarshal(v.Data)
   ELSE IF v.Type = Gauge32T THEN BE32(v.Data)
   ELSE <<>>)

\* Response.MarshalBinary
ResponseMarshal(m) ==
  HeaderMarshal(m.Header) \o BE32(m.SysUptime) \o BE16(m.Error) \o
  BE16(m.Index) \o
  Flatten([i \in 1..Len(m.VarBindList) |-> VarBindMarshal(m.VarBindList[i])])


(***************************************************************************)
(* The codec specification: one constructor call, its encoding, and the    *)
(* decoding of that encoding.                                              *)
(***************************************************************************)
ByteString(n) == [i \in 1..n |-> 204]

\* descriptions and contexts: absent, or 0..MaxDescr bytes
OptStrings == {Nil} \cup {Some(ByteString(n)) : n \in 0..MaxDescr}

\* ids and subtrees: "1", "1.10", "1.2.3.4.7", "-1.5" and the malformed "1.x"
OidStrings == {JoinDots(<<1>>), JoinDots(<<1, 10>>), JoinDots(<<1, 2, 3, 4, 7>>),
               JoinDots(<<-1, 5>>), <<Digit(1), Dot, LetterX>>}

CloseReasons == 1..6

\* VarBinds a handler may return
HandlerVarBinds ==
  {[Type |-> t, Name |-> SubtreeOf(o), Data |-> d, From |-> <<>>] :
     t \in {IntegerT, Gauge32T}, o \in {Oid1, Oid1_10}, d \in {47}}
  \cup {[Type |-> OctetStringT, Name |-> SubtreeOf(o),
         Data |-> NewOctetString(ByteString(n)), From |-> <<>>] :
          o \in {Oid1, Oid1_10}, n \in 0..MaxDescr}
  \cup {NoSuchObjectVarBind(SubtreeOf(Oid1_2)),
        EndOfMibViewVarBind(SubtreeOf(Oid1_2))}

CodecOpen(id, descr) ==
  /\ cin = <<>>
  /\ cin' = [op |-> "open", id |-> id, descr |-> descr]
  /\ cout' = LET r == NewOpenMessage(id, descr)
             IN IF r.err THEN [err |-> TRUE]
                ELSE [err |-> FALSE, msg |-> r.m, bytes |-> OpenMarshal(r.m),
                      dec |-> OpenUnmarshal(OpenMarshal(r.m))]
  /\ UNCHANGED <<sessionVars, registryVars, getVars, setHandlerVars,
               agentVars, writeVars>>

CodecClose(reason, sid) ==
  /\ cin = <<>>
  /\ cin' = [op |-> "close", reason |-> reason, sid |-> sid]
  /\ cout' = LET m == NewCloseMessage(reason, sid)
             IN [err |-> FALSE, msg |-> m, bytes |-> CloseMarshal(m),
                 dec |-> CloseUnmarshal(CloseMarshal(m))]
  /\ UNCHANGED <<sessionVars, registryVars, getVars, setHandlerVars,
               agentVars, writeVars>>

CodecRegister(subtree, context, upperBound, unregister) ==
  /\ cin = <<>>
  /\ cin' = [op |-> "register", subtree |-> subtree, context |-> context,
             upperBound |-> upperBound, unregister |-> unregister]
  /\ cout' = LET r == IF unregister
                      THEN NewUnregisterMessage(subtree, context, upperBound)
                      ELSE NewRegisterMessage(subtree, context, upperBound)
             IN IF r.err THEN [err |-> TRUE]
                ELSE [err |-> FALSE, msg |-> r.m,
                      bytes |-> RegisterMarshal(r.m),
                      dec |-> RegisterUnmarshal(RegisterMarshal(r.m))]
  /\ UNCHANGED <<sessionVars, registryVars, getVars, setHandlerVars,
               agentVars, writeVars>>

CodecResponse(vbs) ==
  /\ cin = <<>>
  /\ cin' = [op |-> "response", vbs |-> vbs]
  /\ cout' = LET m == GetResponse([Flags |-> NetworkByteOrder,
                                   TransactionId |-> 5, PacketId |-> 3],
                                  7, vbs)
             IN [err |-> FALSE, msg |-> m, bytes |-> ResponseMarshal(m)]
  /\ UNCHANGED <<sessionVars, registryVars, getVars, setHandlerVars,
               agentVars, writeVars>>

CodecInit == Init

CodecNext ==
  \/ \E id \in {Nil} \cup {Some(o) : o \in OidStrings}, d \in OptStrings :
        CodecOpen(id, d)
  \/ \E r \in CloseReasons, sid \in {0, 47, -2} : CodecClose(r, sid)
  \/ \E o \in OidStrings, c \in OptStrings, ub \in {Nil, Some(9)},
        u \in BOOLEAN : CodecRegister(o, c, ub, u)
  \/ \E vbs \in SeqsUpTo(HandlerVarBinds, MaxRanges) : CodecResponse(vbs)

CodecSpec == CodecInit /\ [][CodecNext]_vars

(***************************************************************************)
(* Claims about the codec.                                                 *)
(***************************************************************************)
\* C3: every PDU the library writes has header.payload_length equal to the
\* number of bytes that follow the 20-byte header in its encoding.
C3_PayloadLengthExact ==
  (cin # <<>> /\ ~cout.err) =>
    cout.msg.Header.PayloadLength = Len(cout.bytes) - 20

\* the messages C4 is about: Open with an id and a description, Close, and
\* Register with a context and no upper bound
C4_Case ==
  /\ cin # <<>>
  /\ ~cout.err
  /\ \/ cin.op = "open" /\ cin.id # Nil /\ cin.descr # Nil
     \/ cin.op = "close"
     \/ /\ cin.op = "register" /\ ~cin.unregister
        /\ cin.context # Nil /\ cin.upperBound = Nil

MaxPDUs == 2        \* PDUs the master sends in all

GetBulkPDU == 7
TestSetPDU == 8
CommitSetPDU == 9
UndoSetPDU == 10
CleanupSetPDU == 11
NotifyPDU == 12
PingPDU == 13
InstanceRegistration == 1
SearchRangeListPaddingLength == 4
TestSetNoError == 0
TestSetWrongType == 7
TestSetResourceUnavailable == 13
TestSetNotWritable == 17
TestSetHandlerType == 3
\* results of a commit-Set handler: CommitSetNoError, and commitFailed
CommitSetNoError == 0
CommitSetFailed == 14
\* recvMsg: buf := make([]byte, 1024)
BufSize == 1024

\* buf[i] of the buffer recvMsg returns, 1-based: conn.Read filled its first
\* Len(data) bytes and make left the rest zero
BufAt(data, i) == IF i <= Len(data) THEN data[i] ELSE 0

\* the first len bytes of buf[from:], cut at the end of the buffer
BufSlice(data, from, len) ==
  LET avail == IF BufSize - from < 0 THEN 0 ELSE BufSize - from
      w == IF len < avail THEN len ELSE avail
  IN [k \in 1..w |-> BufAt(data, from + k)]

\* Subtree.UnmarshalBinary(buf[i:]): it reads 4 + 4*n_subid bytes at most
SubtreeAt(data, i) ==
  SubtreeUnmarshal(BufSlice(data, i, 4 + 4 * BufAt(data, i + 1)))

\* OctetString.UnmarshalBinary(buf[i:]): it reads 4 bytes and the octets
OctetStringAt(data, i) ==
  IF BufSize - i < 4 THEN OctetStringUnmarshal(<<>>)
  ELSE LET len == FromBE32(BufSlice(data, i, 4))
       IN OctetStringUnmarshal(
            BufSlice(data, i, 4 + (IF len < 0 THEN 0 ELSE len)))

\* the optional context of a Get or TestSet PDU: where the payload goes on,
\* and stop when the read failed (the decoder returns)
ContextAt(data, h) ==
  IF (h.Flags \div NonDefaultContext) % 2 = 0
  THEN [i |-> HeaderSize, stop |-> FALSE]
  ELSE LET c == OctetStringAt(data, HeaderSize)
       IN [i |-> HeaderSize + c.n, stop |-> c.err]

RECURSIVE GetRanges(_, _)
\* GetMessage.unmarshalBinary, the loop for i < len(buf): past the bytes
\* read the buffer is zero, every Subtree there has n_subid 0 and is skipped
\* until one no longer fits, so nothing more is appended
GetRanges(data, i) ==
  IF i >= BufSize \/ i >= Len(data) THEN <<>>
  ELSE LET t == SubtreeAt(data, i)
       IN IF t.err THEN <<>>
          ELSE (IF t.v.NSubid = 0 THEN <<>> ELSE <<t.v>>) \o
               GetRanges(data, i + t.n + SearchRangeListPaddingLength)

\* GetMessage.unmarshalBinary on the buffer: every early return is
\* return i, nil, so the caller never sees an error; fault when buf[i:] has
\* a negative bound (a runtime panic)
GetUnmarshal(data) ==
  LET h == HeaderUnmarshal(BufSlice(data, 0, HeaderSize)).v
      c == ContextAt(data, h)
      fault == ~c.stop /\ c.i < 0
  IN [err |-> FALSE, fault |-> fault,
      m |-> [Header |-> h,
             SearchRangeList |-> IF c.stop \/ fault THEN <<>>
                                 ELSE GetRanges(data, c.i)]]

\* VarBind.UnmarshalBinary(buf[i:]).  The count returned is taken from the
\* reader of the data part, which the OctetString case does not use: an
\* OctetString VarBind reports the length of its type and name only
VarBindAt(data, i) ==
  IF BufSize - i < 4 THEN [err |-> TRUE, n |-> 0, v |-> <<>>]
  ELSE
    LET type == FromBE16(BufSlice(data, i, 2))
        name == SubtreeAt(data, i + 4)
        j == i + 4 + name.n
        none == [Type |-> type, Name |-> name.v, Data |-> <<>>, From |-> <<>>]
    IN IF name.err THEN [err |-> TRUE, n |-> 0, v |-> none]
       ELSE IF type \in {IntegerT, Gauge32T}
       THEN IF BufSize - j < 4 THEN [err |-> TRUE, n |-> 0, v |-> none]
            ELSE [err |-> FALSE, n |-> 4 + name.n + 4,
                  v |-> [none EXCEPT !.Data = FromBE32(BufSlice(data, j, 4))]]
       ELSE IF type = OctetStringT
       THEN LET x == OctetStringAt(data, j)
            IN IF x.err THEN [err |-> TRUE, n |-> 0, v |-> none]
               ELSE [err |-> FALSE, n |-> 4 + name.n,
                     v |-> [none EXCEPT !.Data = x.v]]
       ELSE [err |-> FALSE, n |-> 4 + name.n, v |-> none]

RECURSIVE SetVarBinds(_, _, _)
\* SetMessage.UnmarshalBinary, the loop for i < int(m.Header.PayloadLength):
\* i counts from the start of the buffer, header included; buf[i:] panics
\* when i is outside the buffer
SetVarBinds(data, i, plen) ==
  IF i >= plen THEN [fault |-> FALSE, vbs |-> <<>>]
  ELSE IF i > BufSize \/ i < 0 THEN [fault |-> TRUE, vbs |-> <<>>]
  ELSE LET vb == VarBindAt(data, i)
       IN IF vb.err THEN [fault |-> FALSE, vbs |-> <<>>]
          ELSE LET r == SetVarBinds(data, i + vb.n, plen)
               IN [r EXCEPT !.vbs = <<vb.v>> \o @]

\* SetMessage.UnmarshalBinary on the buffer
SetUnmarshal(data) ==
  LET h == HeaderUnmarshal(BufSlice(data, 0, HeaderSize)).v
      c == ContextAt(data, h)
      r == IF c.stop THEN [fault |-> FALSE, vbs |-> <<>>]
           ELSE SetVarBinds(data, c.i, h.PayloadLength)
  IN [err |-> FALSE, fault |-> r.fault,
      m |-> [Header |-> h, VarBindList |-> r.vbs]]

\* Connection.OnTestSet
OnTestSet(oid) ==
  /\ connState = "ok"
  /\ testSetHandlers' = testSetHandlers \cup {oid}
  /\ UNCHANGED <<sessionVars, registryVars, getVars, codecVars,
                 commitSetHandler, cleanupSetHandler, agentVars, writeVars>>

\* Connection.OnCommitSet
OnCommitSet ==
  /\ connState = "ok"
  /\ commitSetHandler' = TRUE
  /\ UNCHANGED <<sessionVars, registryVars, getVars, codecVars,
                 testSetHandlers, cleanupSetHandler, agentVars, writeVars>>

\* Connection.OnCleanupSet
OnCleanupSet ==
  /\ connState = "ok"
  /\ cleanupSetHandler' = TRUE
  /\ UNCHANGED <<sessionVars, registryVars, getVars, codecVars,
                 testSetHandlers, commitSetHandler, agentVars, writeVars>>

\* what a TestSetHandler and a CommitSetHandler of the caller may return
TestSetResults == {TestSetNoError, TestSetWrongType}
CommitSetResults == {CommitSetNoError, CommitSetFailed}

\* Subtree.String indexes s.SubIdentifiers[0]: a Subtree without
\* subidentifiers makes it panic
SubtreeStringFaults(s) == s.SubIdentifiers = <<>>

RECURSIVE TestSetInvocations(_, _)
\* handleTestSet, the loops over m.VarBindList and the sorted handlers: the
\* invocations in order, up to a v.Name.String() that panics
TestSetInvocations(vbs, hbs) ==
  IF vbs = <<>> \/ hbs = <<>> THEN [fault |-> FALSE, inv |-> <<>>]
  ELSE LET v == Head(vbs)
       IN IF SubtreeStringFaults(v.Name) THEN [fault |-> TRUE, inv |-> <<>>]
          ELSE LET name == SubtreeString(v.Name)
                   match == SelectSeq(hbs, LAMBDA h : StrHasPrefix(name, h))
                   here == [k \in 1..Len(match) |->
                              [Oid |-> match[k], Type |-> TestSetHandlerType,
                               Arg |-> v]]
                   rest == TestSetInvocations(Tail(vbs), hbs)
               IN [fault |-> rest.fault, inv |-> here \o rest.inv]

\* handleTestSet: the handler calls with what each returned, and the error
\* the Response carries: the default, overwritten by every call in turn
TestSetOutcomes(vbs) ==
  LET t == TestSetInvocations(vbs, SortStrings(testSetHandlers))
      n == Len(t.inv)
  IN {[fault |-> t.fault,
       calls |-> [k \in 1..n |-> [Oid |-> t.inv[k].Oid, Type |-> t.inv[k].Type,
                                  Arg |-> t.inv[k].Arg, Result |-> rs[k]]],
       error |-> IF n = 0 THEN TestSetResourceUnavailable ELSE rs[n]] :
        rs \in [1..n -> TestSetResults]}

\* handleTestSet: the Response literal
TestSetResponse(h, sid, error) ==
  [Header |-> [Version |-> 1, Type |-> ResponsePDU,
               Flags |-> IF (h.Flags \div NetworkByteOrder) % 2 = 1
                         THEN NetworkByteOrder ELSE 0,
               Reserved |-> 0,
               SessionId |-> sid,
               TransactionId |-> h.TransactionId,
               PacketId |-> h.PacketId,
               PayloadLength |-> 8],
   SysUptime |-> 0, Error |-> error, Index |-> 0, VarBindList |-> <<>>]

\* handleCommitSet with the PacketId left at its zero value
CommitSetResponseNoPacketId(h, sid, result) ==
  [Header |-> [Version |-> 1, Type |-> ResponsePDU,
               Flags |-> IF (h.Flags \div NetworkByteOrder) % 2 = 1
                         THEN NetworkByteOrder ELSE 0,
               Reserved |-> 0,
               SessionId |-> sid,
               TransactionId |-> h.TransactionId,
               PacketId |-> 0,
               PayloadLength |-> 8],
   SysUptime |-> 0, Error |-> result, Index |-> 0, VarBindList |-> <<>>]

\* handleCommitSet: the Response literal
CommitSetResponse(h, sid, result) ==
  [Header |-> [Version |-> 1, Type |-> ResponsePDU,
               Flags |-> IF (h.Flags \div NetworkByteOrder) % 2 = 1
                         THEN NetworkByteOrder ELSE 0,
               Reserved |-> 0,
               SessionId |-> sid,
               TransactionId |-> h.TransactionId,
               PacketId |-> h.PacketId,
               PayloadLength |-> 8],
   SysUptime |-> 0, Error |-> result, Index |-> 0, VarBindList |-> <<>>]

\* the dispatcher panicking on a message type it has no case for
ServedFaultOnDefault(n, hdr, made, resp, fault) ==
  [n |-> n, hdrErr |-> FALSE, hdr |-> hdr, calls |-> made, resp |-> resp,
   fault |-> fault \/ hdr.Type \in {GetBulkPDU, NotifyPDU, PingPDU},
   close |-> FALSE]

\* what the dispatcher did with one message
Served(n, hdr, made, resp, fault) ==
  [n |-> n, hdrErr |-> FALSE, hdr |-> hdr, calls |-> made, resp |-> resp,
   fault |-> fault, close |-> FALSE]

\* recvMsg and one turn of rootMessageHandler's switch on the bytes a Read
\* returned: every outcome the handlers' return values allow
ServeOutcomes(data) ==
  IF Len(data) < HeaderSize
  THEN \* hdr.UnmarshalBinary(buf[:n]) fails: logged, the loop continues
       {[n |-> Len(data), hdrErr |-> TRUE, hdr |-> NilHeader, calls |-> <<>>,
         resp |-> <<>>, fault |-> FALSE, close |-> FALSE]}
  ELSE
    LET hdr == HeaderUnmarshal(data).v
        n == Len(data)
    IN IF hdr.Type = ResponsePDU
       THEN IF hdr.TransactionId = CloseTransactionId
            THEN {[Served(n, hdr, <<>>, <<>>, FALSE) EXCEPT !.close = TRUE]}
            ELSE IF hdr.TransactionId \in {RegisterTransactionId,
                                           UnregisterTransactionId}
            THEN {Served(n, hdr, <<>>, <<>>,
                         RegisterResponseFaults(hdr.PacketId))}
            ELSE {Served(n, hdr, <<>>, <<>>, FALSE)}
       ELSE IF hdr.Type \in {GetPDU, GetNextPDU}
       THEN LET g == GetUnmarshal(data)
            IN IF g.fault THEN {Served(n, hdr, <<>>, <<>>, TRUE)}
               ELSE {Served(n, hdr, out.calls,
                            IF out.fault THEN <<>>
                            ELSE <<GetResponse(hdr, sessionId, out.vbs)>>,
                            out.fault) :
                       out \in GetOutcomes(g.m.SearchRangeList,
                                           hdr.Type = GetNextPDU)}
       ELSE IF hdr.Type = TestSetPDU
       THEN LET s == SetUnmarshal(data)
            IN IF s.fault THEN {Served(n, hdr, <<>>, <<>>, TRUE)}
               ELSE {Served(n, hdr, out.calls,
                            IF out.fault THEN <<>>
                            ELSE <<TestSetResponse(hdr, sessionId, out.error)>>,
                            out.fault) :
                       out \in TestSetOutcomes(s.m.VarBindList)}
       ELSE IF hdr.Type = CommitSetPDU
       THEN IF ~commitSetHandler
            THEN \* c.commitSetHandler is nil: calling it panics
                 {Served(n, hdr, <<>>, <<>>, TRUE)}
            ELSE {Served(n, hdr,
                         <<[Type |-> CommitSetPDU, Arg |-> hdr.SessionId,
                            Result |-> r]>>,
                         <<CommitSetResponse(hdr, sessionId, r)>>, FALSE) :
                    r \in CommitSetResults}
       ELSE IF hdr.Type = CleanupSetPDU
       THEN IF ~cleanupSetHandler
            THEN \* c.cleanupSetHandler is nil: calling it panics
                 {Served(n, hdr, <<>>, <<>>, TRUE)}
            ELSE {Served(n, hdr,
                         <<[Type |-> CleanupSetPDU, Arg |-> hdr.SessionId]>>,
                         <<>>, FALSE)}
       ELSE \* default: unknown message type, logged
            {Served(n, hdr, <<>>, <<>>, FALSE)}

\* conn.Read returns n bytes, recvMsg and rootMessageHandler deal with them
DispatcherServe(n, out) ==
  /\ connState = "ok" /\ ~Crashed
  /\ dpc = "recv" /\ conn = "open"
  /\ n >= 1 /\ n <= Len(stream) /\ n <= BufSize
  /\ out \in ServeOutcomes(SubSeq(stream, 1, n))
  /\ stream' = Drop(stream, n)
  /\ served' = Append(served, out @@ [left |-> Len(stream) - n])
  /\ wire' = IF out.resp # <<>> THEN SendMsgWire(out.resp[1]) ELSE wire
  /\ dpc' = IF out.fault THEN "panic"
            ELSE IF out.close THEN "signalClose" ELSE "recv"
  /\ conn' = IF out.close THEN "closed" ELSE conn
  /\ UNCHANGED <<connState, sessionId, registrations, closed, closedSignals,
                 callers, peerClosed, nops, openOutcome, sent>>
  /\ UNCHANGED <<registryVars, getVars, codecVars, setHandlerVars, writeVars>>

(***************************************************************************)
(* The master agent at the other end of the socket.                        *)
(***************************************************************************)
\* VarBinds a TestSet carries: under the handlers at 1 and 1.2, under the
\* handler at 1 only, and under no handler
VbUnderBoth == [Type |-> IntegerT, Name |-> SubtreeOf(<<1, 2, 3>>), Data |-> 5,
                From |-> <<>>]
VbUnderOne == [Type |-> IntegerT, Name |-> SubtreeOf(<<1, 5, 1>>), Data |-> 6,
               From |-> <<>>]
VbUnderNone == [Type |-> IntegerT, Name |-> SubtreeOf(<<2, 1, 1>>), Data |-> 7,
                From |-> <<>>]

\* the payload of a Get or GetNext PDU: per SearchRange the start OID and an
\* empty end OID
GetBody(ranges) ==
  Flatten([i \in 1..Len(ranges) |->
             SubtreeMarshal(ranges[i]) \o SubtreeMarshal(NilSubtree)])

\* the payload of a TestSet PDU: the VarBinds
SetBody(vbs) == Flatten([i \in 1..Len(vbs) |-> VarBindMarshal(vbs[i])])

\* the payload of a Get or GetNext PDU whose SearchRanges have an end OID
SearchRangeListBody(ranges) ==
  Flatten([i \in 1..Len(ranges) |->
             SubtreeMarshal(ranges[i].start) \o SubtreeMarshal(ranges[i].end)])

\* the requests the master sends
MasterPDUs ==
  {[Type |-> t, Flags |-> NetworkByteOrder,
    Body |-> GetBody(<<SubtreeOf(Oid1)>>)] : t \in {GetPDU, GetNextPDU}}
  \cup
  {[Type |-> GetPDU, Flags |-> NetworkByteOrder,
    Body |-> GetBody(<<SubtreeOf(Oid1_2), SubtreeOf(Oid1_9)>>)],
   [Type |-> GetNextPDU, Flags |-> NetworkByteOrder,
    Body |-> SearchRangeListBody(
               <<[start |-> SubtreeOf(Oid1_2), end |-> SubtreeOf(Oid2)],
                 [start |-> SubtreeOf(Oid1_9), end |-> NilSubtree]>>)]}
  \cup
  {[Type |-> TestSetPDU, Flags |-> NetworkByteOrder, Body |-> SetBody(vbs)] :
     vbs \in {<<VbUnderBoth>>, <<VbUnderNone>>, <<VbUnderBoth, VbUnderOne>>}}
  \cup
  {[Type |-> CommitSetPDU, Flags |-> f, Body |-> <<>>] :
     f \in {NetworkByteOrder, NetworkByteOrder + InstanceRegistration}}
  \cup
  {[Type |-> t, Flags |-> NetworkByteOrder, Body |-> <<>>] :
     t \in {UndoSetPDU, CleanupSetPDU}}

\* the header of the k-th PDU the master sends in the session: transaction
\* and packet ids differ from PDU to PDU
MasterHeader(p, k, sid) ==
  [Version |-> 1, Type |-> p.Type, Flags |-> p.Flags, Reserved |-> 0,
   SessionId |-> sid, TransactionId |-> 100 + k, PacketId |-> 200 + k,
   PayloadLength |-> Len(p.Body)]

\* the master writes one PDU to the socket
MasterSend(p) ==
  /\ connState = "ok" /\ conn = "open"
  /\ Len(sent) < MaxPDUs
  /\ LET h == MasterHeader(p, Len(sent) + 1, sessionId)
     IN /\ sent' = Append(sent, [Header |-> h, Body |-> p.Body])
        /\ stream' = stream \o HeaderMarshal(h) \o p.Body
  /\ UNCHANGED <<sessionVars, registryVars, getVars, codecVars,
                 setHandlerVars, served, writeVars>>

(***************************************************************************)
(* ServeSpec: the caller installs its handlers, then the master sends its  *)
(* requests one at a time and every Read returns one whole PDU.            *)
(***************************************************************************)
TestSetKeys == {JoinDots(Oid1), JoinDots(Oid1_2)}

ServeInit == GetInit

ServeNext ==
  \/ sent = <<>> /\ OnGet(JoinDots(Oid1_2))
  \/ sent = <<>> /\ \E k \in TestSetKeys : OnTestSet(k)
  \/ sent = <<>> /\ ~commitSetHandler /\ OnCommitSet
  \/ sent = <<>> /\ ~cleanupSetHandler /\ OnCleanupSet
  \/ stream = <<>> /\ \E p \in MasterPDUs : MasterSend(p)
  \/ \E out \in ServeOutcomes(stream) : DispatcherServe(Len(stream), out)

ServeSpec == ServeInit /\ [][ServeNext]_vars

(***************************************************************************)
(* StreamSpec: the handlers are installed, the master sends its requests   *)
(* without waiting for the answers, and a Read returns any number of the   *)
(* bytes that have arrived.                                                *)
(***************************************************************************)
\* the requests the master sends: each of them is answered with a Response
StreamPDUs ==
  {p \in MasterPDUs :
     \/ p.Type \in {GetPDU, GetNextPDU} /\ p.Body = GetBody(<<SubtreeOf(Oid1)>>)
     \/ p.Type = TestSetPDU /\ p.Body = SetBody(<<VbUnderBoth>>)
     \/ p.Type = CommitSetPDU /\ p.Flags # NetworkByteOrder}

\* the bytes of a PDU the master sent
PduSize(p) == HeaderSize + Len(p.Body)

\* how many bytes a Read may return: a header without its payload, a header
\* with part of a payload, as many bytes as one of the PDUs sent has, or all
\* that has arrived
ReadSizes ==
  {n \in {HeaderSize, HeaderSize + 8, Len(stream)}
          \cup {PduSize(sent[k]) : k \in 1..Len(sent)} :
     n >= 1 /\ n <= Len(stream)}

\* a connected session with a Get handler at 1.2, a test-Set handler at 1,
\* and the commit-Set and cleanup-Set handlers installed
StreamInit ==
  /\ connState = "ok"
  /\ conn = "open"
  /\ sessionId = 7
  /\ registrations = <<>>
  /\ closed = FALSE
  /\ closedSignals = 0
  /\ wire = <<>>
  /\ dpc = "recv"
  /\ callers = [i \in Callers |-> IdleCaller]
  /\ peerClosed = FALSE
  /\ nops = 0
  /\ openOutcome = "respOk"
  /\ getHandlers = {JoinDots(Oid1_2)}
  /\ getSubtreeHandlers = {}
  /\ lastReq = <<>>
  /\ calls = <<>>
  /\ cin = <<>>
  /\ cout = <<>>
  /\ testSetHandlers = {JoinDots(Oid1)}
  /\ commitSetHandler = TRUE
  /\ cleanupSetHandler = TRUE
  /\ stream = <<>>
  /\ sent = <<>>
  /\ served = <<>>
  /\ pending = <<>>
  /\ socket = <<>>

StreamNext ==
  \/ \E p \in StreamPDUs : MasterSend(p)
  \/ \E n \in ReadSizes :
        \E out \in ServeOutcomes(SubSeq(stream, 1, n)) : DispatcherServe(n, out)

StreamSpec == StreamInit /\ [][StreamNext]_vars

(***************************************************************************)
(* Claims about TestSet, CommitSet, CleanupSet and UndoSet.                *)
(***************************************************************************)
\* the results the handlers invoked for a message returned, in order
ResultsOf(rec) == [k \in 1..Len(rec.calls) |-> rec.calls[k].Result]

\* the last result that is not NoError, for results that hold one
LastError(rs) ==
  rs[CHOOSE k \in 1..Len(rs) :
       /\ rs[k] # TestSetNoError
       /\ \A j \in (k + 1)..Len(rs) : rs[j] = TestSetNoError]

\* C11: the error of a TestSet Response is NoError when every test-Set
\* handler invoked returned NoError, and otherwise the last result other than
\* NoError a handler returned: a later NoError never overwrites an error.
C11_TestSetWorstResult ==
  \A k \in 1..Len(served) :
    (/\ served[k].hdr.Type = TestSetPDU
     /\ served[k].calls # <<>>
     /\ served[k].resp # <<>>)
    => LET rs == ResultsOf(served[k])
       IN served[k].resp[1].Error =
            (IF \A j \in 1..Len(rs) : rs[j] = TestSetNoError
             THEN TestSetNoError ELSE LastError(rs))

\* C12: a TestSet PDU none of whose VarBind names has a test-Set handler key
\* as a prefix (so that no handler is invoked) is answered with NotWritable.
C12_NoMatchNotWritable ==
  \A k \in 1..Len(served) :
    (/\ served[k].hdr.Type = TestSetPDU
     /\ served[k].calls = <<>>)
    => /\ served[k].resp # <<>>
       /\ served[k].resp[1].Error = TestSetNotWritable

\* C13: every CommitSet PDU is answered with exactly one Response, whose
\* error is what the commit-Set handler returned, or NoError when none is
\* installed, and the dispatcher goes on serving.
C13_CommitSetAnswered ==
  \A k \in 1..Len(served) :
    sent[k].Header.Type = CommitSetPDU
    => /\ ~served[k].fault
       /\ Len(served[k].resp) = 1
       /\ served[k].resp[1].Error =
            (IF commitSetHandler THEN served[k].calls[1].Result
             ELSE CommitSetNoError)

\* C14: on a CleanupSet PDU the dispatcher invokes the cleanup-Set handler
\* when one is installed and does nothing when none is; either way it sends
\* no Response and goes on serving.
C14_CleanupSetSilent ==
  \A k \in 1..Len(served) :
    sent[k].Header.Type = CleanupSetPDU
    => /\ ~served[k].fault
       /\ served[k].resp = <<>>
       /\ Len(served[k].calls) = (IF cleanupSetHandler THEN 1 ELSE 0)

\* C15: every UndoSet PDU is answered with one Response with error NoError
\* that echoes the transaction id and the packet id of the request.
C15_UndoSetNoError ==
  \A k \in 1..Len(served) :
    sent[k].Header.Type = UndoSetPDU
    => /\ Len(served[k].resp) = 1
       /\ served[k].resp[1].Error = TestSetNoError
       /\ served[k].resp[1].Header.TransactionId = sent[k].Header.TransactionId
       /\ served[k].resp[1].Header.PacketId = sent[k].Header.PacketId

(***************************************************************************)
(* Claims about the byte stream: echoed ids, framing, decode errors.       *)
(***************************************************************************)
RECURSIVE BytesSent(_)
\* the bytes of the first k PDUs the master sent
BytesSent(k) == IF k = 0 THEN 0 ELSE BytesSent(k - 1) + PduSize(sent[k])

RECURSIVE BytesRead(_)
\* the bytes the first k reads returned
BytesRead(k) == IF k = 0 THEN 0 ELSE BytesRead(k - 1) + served[k].n

\* the k-th read starts at the first byte of the j-th PDU sent
ReadsPdu(k, j) ==
  /\ k \in 1..Len(served) /\ j \in 1..Len(sent)
  /\ BytesRead(k - 1) = BytesSent(j - 1)

\* the flags masked with NetworkByteOrder
MaskedFlags(f) ==
  IF (f \div NetworkByteOrder) % 2 = 1 THEN NetworkByteOrder ELSE 0

\* C16: every Response emitted for a Get, GetNext, TestSet or CommitSet
\* request carries the transaction id and the packet id of the request it
\* answers and the request's flags masked with NetworkByteOrder, also when
\* several requests are outstanding.
C16_ResponseEchoesRequest ==
  \A k \in 1..Len(served), j \in 1..Len(sent) :
    (ReadsPdu(k, j) /\ served[k].resp # <<>>)
    => LET r == served[k].resp[1].Header
           q == sent[j].Header
       IN /\ r.Type = ResponsePDU
          /\ r.TransactionId = q.TransactionId
          /\ r.PacketId = q.PacketId
          /\ r.Flags = MaskedFlags(q.Flags)
          /\ wire # <<>>

\* two requests were outstanding when the first was read, both have been
\* answered, and one of them carried a flag besides NetworkByteOrder
C16_Witness ==
  /\ Len(sent) = 2 /\ Len(served) = 2
  /\ ReadsPdu(1, 1) /\ ReadsPdu(2, 2)
  /\ served[1].left = PduSize(sent[2])
  /\ served[1].resp # <<>> /\ served[2].resp # <<>>
  /\ Len(wire) = 2
  /\ wire[1].Header.PacketId = sent[1].Header.PacketId
  /\ wire[2].Header.PacketId = sent[2].Header.PacketId
  /\ sent[1].Header.Type = CommitSetPDU
  /\ sent[1].Header.Flags # NetworkByteOrder
  /\ sent[2].Header.Type = TestSetPDU

\* C17: however the master's bytes are cut into reads, every receive returns
\* exactly one whole PDU: the k-th message dispatched is the k-th PDU the
\* master sent, all of it and nothing more.
C17_OnePduPerReceive ==
  \A k \in 1..Len(served) :
    /\ ~served[k].hdrErr
    /\ ReadsPdu(k, k)
    /\ served[k].n = PduSize(sent[k])
    /\ served[k].hdr = sent[k].Header

\* the message handed to the dispatcher holds less payload than its header
\* announces
Truncated(rec) ==
  /\ ~rec.hdrErr
  /\ rec.n < HeaderSize + rec.hdr.PayloadLength

\* C20: when a Get, GetNext or TestSet PDU does not decode (its payload is
\* truncated), the dispatcher invokes no handler, sends no Response for it
\* and goes on serving.
C20_DecodeErrorDropsPdu ==
  \A k \in 1..Len(served) :
    (/\ Truncated(served[k])
     /\ served[k].hdr.Type \in {GetPDU, GetNextPDU, TestSetPDU})
    => /\ served[k].calls = <<>>
       /\ served[k].resp = <<>>
       /\ ~served[k].fault

(***************************************************************************)
(* Claims about Responses the master sends to the subagent.                *)
(***************************************************************************)
\* C19: a Response with the Register or Unregister transaction id whose
\* packet id is negative or not below the length of registrations does not
\* crash the dispatcher: the read loop goes on with the next PDU.
C19_BadPacketIdSurvives ==
  [][\A k \in {"registerResp", "unregisterResp"}, pid \in PacketIds :
        (/\ DispatcherRecv(k, pid)
         /\ conn # "closed"
         /\ RegisterResponseFaults(pid))
        => dpc' = "recv"]_vars

(***************************************************************************)
(* WriteSpec: the goroutines that send PDUs on the shared socket.  Callers *)
(* send Register, Unregister and Close PDUs, the dispatcher sends          *)
(* Responses; each runs sendMsg, and net.Conn.Write of one goroutine is    *)
(* not interleaved with that of another.                                   *)
(***************************************************************************)
\* the goroutines that call sendMsg: the callers, and the dispatcher
Writers == Callers \cup {0}

\* sendMsg with the header and the payload handed to conn.Write separately
SendMsgWritesSplit(buf) == <<SubSeq(buf, 1, HeaderSize), Drop(buf, HeaderSize)>>

\* sendMsg: the conn.Write calls made for the marshalled PDU: one
SendMsgWrites(buf) == <<buf>>

\* the PDUs a goroutine sends, marshalled: one caller registers and
\* unregisters, the other disconnects, the dispatcher answers a TestSet
WriterPDUs(w) ==
  IF w \notin Callers
  THEN {ResponseMarshal(
          TestSetResponse(MasterHeader(p, 1, sessionId), sessionId,
                          TestSetResourceUnavailable)) :
          p \in {q \in MasterPDUs : q.Body = SetBody(<<VbUnderNone>>)}}
  ELSE IF w = CHOOSE c \in Callers : \A d \in Callers : c <= d
  THEN {RegisterMarshal(NewRegisterMessage(JoinDots(Oid1_2), Nil, Nil).m),
        RegisterMarshal(NewUnregisterMessage(JoinDots(Oid1_2), Nil, Nil).m)}
  ELSE {CloseMarshal(NewCloseMessage(CloseReasonShutdown, sessionId))}

\* sendMsg up to the call of c.conn.Write
SendMsg(w, buf) ==
  /\ connState = "ok" /\ conn = "open" /\ ~closed
  /\ pending[w].todo = <<>>
  /\ pending[w].started < MaxPDUs
  /\ pending' = [pending EXCEPT ![w] = [started |-> @.started + 1,
                                        todo |-> SendMsgWrites(buf)]]
  /\ UNCHANGED <<sessionVars, registryVars, getVars, codecVars,
                 setHandlerVars, agentVars, socket>>

\* c.conn.Write(buf): the bytes of one call reach the socket together
ConnWrite(w) ==
  /\ pending[w].todo # <<>>
  /\ socket' = Append(socket, [by |-> w, pdu |-> pending[w].started,
                               bytes |-> Head(pending[w].todo)])
  /\ pending' = [pending EXCEPT ![w].todo = Tail(@)]
  /\ UNCHANGED <<sessionVars, registryVars, getVars, codecVars,
                 setHandlerVars, agentVars>>

\* a connected session, nobody sending
WriteInit ==
  /\ connState = "ok"
  /\ conn = "open"
  /\ sessionId = 7
  /\ registrations = <<>>
  /\ closed = FALSE
  /\ closedSignals = 0
  /\ wire = <<>>
  /\ dpc = "recv"
  /\ callers = [i \in Callers |-> IdleCaller]
  /\ peerClosed = FALSE
  /\ nops = 0
  /\ openOutcome = "respOk"
  /\ getHandlers = {}
  /\ getSubtreeHandlers = {}
  /\ lastReq = <<>>
  /\ calls = <<>>
  /\ cin = <<>>
  /\ cout = <<>>
  /\ testSetHandlers = {}
  /\ commitSetHandler = FALSE
  /\ cleanupSetHandler = FALSE
  /\ stream = <<>>
  /\ sent = <<>>
  /\ served = <<>>
  /\ pending = [w \in Writers |-> [started |-> 0, todo |-> <<>>]]
  /\ socket = <<>>

WriteNext ==
  \/ \E w \in Writers : \E buf \in WriterPDUs(w) : SendMsg(w, buf)
  \/ \E w \in Writers : ConnWrite(w)

WriteSpec == WriteInit /\ [][WriteNext]_vars

\* C18: however the sends of the callers and the Responses of the dispatcher
\* interleave, the bytes of two PDUs are never interleaved on the socket:
\* the bytes of each PDU are contiguous in the outgoing stream.
C18_PduBytesContiguous ==
  \A i, j, k \in 1..Len(socket) :
    (/\ i < j /\ j < k
     /\ socket[i].by = socket[k].by
     /\ socket[i].pdu = socket[k].pdu)
    => /\ socket[j].by = socket[i].by
       /\ socket[j].pdu = socket[i].pdu

\* a caller, the dispatcher and the other caller have each put a PDU on the
\* socket, and two of them are in sendMsg again at the same time
C18_Witness ==
  /\ Len(socket) = 3
  /\ socket[1].by \in Callers
  /\ socket[2].by \notin Callers
  /\ socket[3].by \in Callers \ {socket[1].by}
  /\ pending[socket[1].by].todo # <<>>
  /\ pending[socket[2].by].todo # <<>>

(***************************************************************************)
(* OidSpec: one call of a Subtree operation (NewSubtree, HasPrefix, the    *)
(* comparisons) on inputs drawn from a small set.                          *)
(***************************************************************************)
\* Subtree.HasPrefix
SubtreeHasPrefix(s, p) == StrHasPrefix(SubtreeString(s), SubtreeString(p))

\* Subtree.GreaterThan
SubtreeGreaterThan(s, x) == StrLess(SubtreeString(x), SubtreeString(s))

\* Subtree.GreaterThanEq
SubtreeGreaterThanEq(s, x) == StrGeq(SubtreeString(s), SubtreeString(x))

\* Subtree.LessThan
SubtreeLessThan(s, x) == StrLess(SubtreeString(s), SubtreeString(x))

\* Subtree.LessThanEq
SubtreeLessThanEq(s, x) == StrGeq(SubtreeString(x), SubtreeString(s))

\* a Subtree with the prefix byte set: 1.3.6.1.<prefix> is left out of the
\* subidentifiers
PrefixedSubtree(prefix, ids) ==
  [NSubid |-> Len(ids) % 256, Prefix |-> prefix, Zero |-> 0, Reserved |-> 0,
   SubIdentifiers |-> ids]

\* the OIDs the operations are called with: 1.3.6.1.2.1 comes in both forms,
\* and 1.3.6.1.2 has no subidentifier left beside its prefix byte
OidSubtrees ==
  {SubtreeOf(ids) : ids \in {Oid1, <<1, 1>>, Oid1_2, <<1, 2, 3>>, Oid1_9,
                             Oid1_10, Oid2, <<1, 3, 6, 1, 2, 1>>}}
  \cup {PrefixedSubtree(2, <<1>>), PrefixedSubtree(2, <<>>)}

\* the strings NewSubtree is called with
SubtreeStrings ==
  {JoinDots(Oid1_2), JoinDots(Oid1_10),
   <<>>,                                           \* ""
   <<Digit(1), Dot, Dot, Digit(2)>>,               \* "1..2"
   <<Digit(1), Dot, LetterX>>,                     \* "1.x"
   <<Digit(1), Dot, Minus, Digit(1)>>,             \* "1.-1"
   <<Digit(1), Dot>> \o Itoa(2147483647),          \* "1.2147483647"
   <<Digit(1), Dot, Digit(2), Digit(1), Digit(4), Digit(7), Digit(4), Digit(8),
     Digit(3), Digit(6), Digit(4), Digit(8)>>,     \* "1.2147483648"
   <<Digit(1), Dot, Digit(4), Digit(2), Digit(9), Digit(4), Digit(9), Digit(6),
     Digit(7), Digit(2), Digit(9), Digit(5)>>,     \* "1.4294967295"
   <<Digit(1), Dot, Digit(4), Digit(2), Digit(9), Digit(4), Digit(9), Digit(6),
     Digit(7), Digit(2), Digit(9), Digit(6)>>}     \* "1.4294967296"

\* one of the comparisons, HasPrefix included, is called on s and x; fault
\* when Subtree.String panics on one of them
CallCompare(s, x) ==
  /\ cin = <<>>
  /\ cin' = [op |-> "compare", s |-> s, x |-> x]
  /\ cout' = IF SubtreeStringFaults(s) \/ SubtreeStringFaults(x)
             THEN [fault |-> TRUE]
             ELSE [fault |-> FALSE,
                   HasPrefix |-> SubtreeHasPrefix(s, x),
                   GreaterThan |-> SubtreeGreaterThan(s, x),
                   GreaterThanEq |-> SubtreeGreaterThanEq(s, x),
                   LessThan |-> SubtreeLessThan(s, x),
                   LessThanEq |-> SubtreeLessThanEq(s, x)]
  /\ UNCHANGED <<sessionVars, registryVars, getVars, setHandlerVars,
                 agentVars, writeVars>>

\* NewSubtree(oid)
CallNewSubtree(oid) ==
  /\ cin = <<>>
  /\ cin' = [op |-> "newSubtree", oid |-> oid]
  /\ cout' = NewSubtree(oid)
  /\ UNCHANGED <<sessionVars, registryVars, getVars, setHandlerVars,
                 agentVars, writeVars>>

OidInit == Init

OidNext ==
  \/ \E s \in OidSubtrees, x \in OidSubtrees : CallCompare(s, x)
  \/ \E oid \in SubtreeStrings : CallNewSubtree(oid)

OidSpec == OidInit /\ [][OidNext]_vars

(***************************************************************************)
(* Claims about OIDs.                                                      *)
(***************************************************************************)
\* the subidentifiers of an OID with its prefix written out
Expand(s) ==
  IF s.Prefix # 0 THEN <<1, 3, 6, 1, s.Prefix>> \o s.SubIdentifiers
  ELSE s.SubIdentifiers

\* a is a prefix of b, as sequences
IsPrefixSeq(a, b) == Len(a) <= Len(b) /\ SubSeq(b, 1, Len(a)) = a

\* C21: LessThan, LessThanEq, GreaterThan and GreaterThanEq agree with the
\* lexicographic order of the expanded subidentifier sequences, whatever the
\* number of decimal digits of the subidentifiers.
C21_CompareIsLexicographic ==
  (cin # <<>> /\ cin.op = "compare")
  => LET a == Expand(cin.s)
         b == Expand(cin.x)
     IN /\ ~cout.fault
        /\ cout.LessThan = OidLess(a, b)
        /\ cout.LessThanEq = ~OidLess(b, a)
        /\ cout.GreaterThan = OidLess(b, a)
        /\ cout.GreaterThanEq = ~OidLess(a, b)

\* C22: s.HasPrefix(p) holds exactly when the expanded subidentifiers of p
\* are a prefix of those of s, whole subidentifiers and not decimal digits.
C22_HasPrefixOnSubidentifiers ==
  (cin # <<>> /\ cin.op = "compare" /\ ~cout.fault)
  => cout.HasPrefix = IsPrefixSeq(Expand(cin.x), Expand(cin.s))

\* the decimal string x denotes an integer in 0..4294967295
IsUint32String(x) ==
  /\ x # <<>>
  /\ \A i \in 1..Len(x) : IsDigit(x[i])
  /\ \/ Len(x) < 10
     \/ Len(x) = 10 /\ ~StrLess(<<Digit(4), Digit(2), Digit(9), Digit(4),
                                   Digit(9), Digit(6), Digit(7), Digit(2),
                                   Digit(9), Digit(5)>>, x)

\* the string is a dotted sequence of at most 128 unsigned 32-bit integers
IsOidString(oid) ==
  LET ids == Split(oid, Dot)
  IN /\ Len(ids) <= 128
     /\ \A i \in 1..Len(ids) : IsUint32String(ids[i])

\* C27: NewSubtree succeeds exactly on the dotted sequences of at most 128
\* decimal integers in 0..4294967295, storing their count and their values,
\* and returns an error for every other string.
C27_NewSubtreeAcceptsOids ==
  (cin # <<>> /\ cin.op = "newSubtree")
  => LET ids == Split(cin.oid, Dot)
     IN /\ cout.err = ~IsOidString(cin.oid)
        /\ ~cout.err =>
             /\ cout.t.NSubid = Len(ids)
             /\ Len(cout.t.SubIdentifiers) = Len(ids)
             /\ \A i \in 1..Len(ids) :
                  Itoa(cout.t.SubIdentifiers[i]) = ids[i]

(***************************************************************************)
(* ValueSpec: one VarBind or one OctetString, its encoding, and the        *)
(* decoding of that encoding.                                              *)
(***************************************************************************)
NullT == 5
ObjectIdentifierT == 6
IpAddressT == 64
Counter32T == 65
TimeTicksT == 67
OpaqueT == 68
Counter64T == 70
NoSuchInstanceT == 129

\* VarBind.UnmarshalBinary into a zero VarBind.  The count returned is
\* before - r.Len() of the reader of the data part: the OctetString case
\* does not read from it, and reports the type and the name only
VarBindUnmarshal(buf) ==
  LET none == [Type |-> 0, Name |-> NilSubtree, Data |-> <<>>, From |-> <<>>]
  IN IF Len(buf) < 4 THEN [err |-> TRUE, n |-> 0, v |-> none]
     ELSE
       LET type == FromBE16(SubSeq(buf, 1, 2))
           name == SubtreeUnmarshal(Drop(buf, 4))
           j == 4 + name.n
           v == [none EXCEPT !.Type = type, !.Name = name.v]
       IN IF name.err THEN [err |-> TRUE, n |-> 4, v |-> v]
          ELSE IF type \in {IntegerT, Gauge32T}
          THEN IF Len(buf) - j < 4 THEN [err |-> TRUE, n |-> j, v |-> v]
               ELSE [err |-> FALSE, n |-> j + 4,
                     v |-> [v EXCEPT !.Data = FromBE32(SubSeq(buf, j + 1, j + 4))]]
          ELSE IF type = OctetStringT
          THEN LET x == OctetStringUnmarshal(Drop(buf, j))
               IN IF x.err THEN [err |-> TRUE, n |-> j, v |-> v]
                  ELSE [err |-> FALSE, n |-> j, v |-> [v EXCEPT !.Data = x.v]]
          ELSE \* the types under "TODO below not implemented"
               [err |-> FALSE, n |-> j, v |-> v]

\* the types of the data model, and the values a VarBind of each type holds
\* (<<>> is a nil Data)
VarBindData(type) ==
  IF type = IntegerT THEN {0, 47, -1, 2147483647}
  ELSE IF type = Gauge32T THEN {0, 47, 2147483647}
  ELSE IF type = OctetStringT
  THEN {NewOctetString(ByteString(n)) : n \in {0, 2, 4, 5}}
  ELSE IF type = OpaqueT THEN {NewOctetString(ByteString(n)) : n \in {0, 2}}
  ELSE IF type \in {Counter32T, TimeTicksT} THEN {0, 47}
  ELSE IF type = Counter64T THEN {0, 47}
  ELSE IF type = IpAddressT THEN {NewOctetString(<<10, 0, 0, 1>>)}
  ELSE IF type = ObjectIdentifierT THEN {SubtreeOf(Oid1_2)}
  ELSE {<<>>}

VarBindTypes ==
  {IntegerT, OctetStringT, NullT, ObjectIdentifierT, IpAddressT, Counter32T,
   Gauge32T, TimeTicksT, OpaqueT, Counter64T, NoSuchObjectT, NoSuchInstanceT,
   EndOfMibViewT}

VarBindNames ==
  {SubtreeOf(Oid1), SubtreeOf(Oid1_2), SubtreeOf(<<1, 3, 5, 1, 2, 1, 17>>),
   PrefixedSubtree(2, <<1>>)}

\* a VarBind is marshalled and the bytes are unmarshalled
CodecVarBind(v) ==
  /\ cin = <<>>
  /\ cin' = [op |-> "varbind", v |-> v]
  /\ cout' = [bytes |-> VarBindMarshal(v),
              dec |-> VarBindUnmarshal(VarBindMarshal(v))]
  /\ UNCHANGED <<sessionVars, registryVars, getVars, setHandlerVars,
                 agentVars, writeVars>>

\* NewOctetString(s), its MarshalBinary, and UnmarshalBinary of the bytes
CodecOctetString(s) ==
  /\ cin = <<>>
  /\ cin' = [op |-> "octetString", s |-> s]
  /\ cout' = LET o == NewOctetString(s)
             IN [msg |-> o, bytes |-> OctetStringMarshal(o),
                 dec |-> OctetStringUnmarshal(OctetStringMarshal(o))]
  /\ UNCHANGED <<sessionVars, registryVars, getVars, setHandlerVars,
                 agentVars, writeVars>>

ValueInit == Init

ValueNext ==
  \/ \E t \in VarBindTypes, name \in VarBindNames :
        \E d \in VarBindData(t) :
          CodecVarBind([Type |-> t, Name |-> name, Data |-> d, From |-> <<>>])
  \/ \E n \in 0..MaxDescr : CodecOctetString(ByteString(n))

ValueSpec == ValueInit /\ [][ValueNext]_vars

\* C23: for a VarBind of every type of the data model, decoding its encoding
\* yields a VarBind with the same type, the same name and the same data.
C23_VarBindRoundTrip ==
  (cin # <<>> /\ cin.op = "varbind")
  => /\ ~cout.dec.err
     /\ cout.dec.v.Type = cin.v.Type
     /\ cout.dec.v.Name = cin.v.Name
     /\ cout.dec.v.Data = cin.v.Data

\* C24: the encoding of an OctetString of any length is the 32-bit length,
\* the bytes, then 0 to 3 zero bytes; its length is a multiple of 4; decoding
\* it reports 4 + length + pad bytes consumed, which is all of the encoding,
\* and recovers the length.
C24_OctetStringPadded ==
  (cin # <<>> /\ cin.op = "octetString")
  => LET len == Len(cin.s)
         pad == Len(cout.bytes) - 4 - len
     IN /\ pad \in 0..3
        /\ cout.bytes = BE32(len) \o cin.s \o Zeros(pad)
        /\ Len(cout.bytes) % 4 = 0
        /\ ~cout.dec.err
        /\ cout.dec.n = 4 + len + pad
        /\ cout.dec.v.OctetStringLength = len
        /\ SubSeq(cout.dec.v.Octets, 1, len) = cin.s

\* OctetStrings of length 0, of a length divisible by 4 and of a length that
\* is not have been encoded and decoded
C24_Witness ==
  /\ cin # <<>> /\ cin.op = "octetString"
  /\ Len(cin.s) = 5
  /\ Len(cout.bytes) = 12
  /\ cout.dec.n = 12

(***************************************************************************)
(* Claims about the session id.                                            *)
(***************************************************************************)
\* the session id in the header of a PDU on the wire
PduSessionId(p) ==
  IF "Header" \in DOMAIN p THEN p.Header.SessionId ELSE p.SessionId

\* every PDU sent carries the session id the Connection has stored
SessionIdStamped ==
  \A k \in 1..Len(wire) : PduSessionId(wire[k]) = sessionId

RECURSIVE SearchRangesOf(_)
\* the SearchRanges a Get or GetNext payload holds: a start OID and an end
\* OID each
SearchRangesOf(body) ==
  IF body = <<>> THEN <<>>
  ELSE LET s == SubtreeUnmarshal(body)
           e == SubtreeUnmarshal(Drop(body, s.n))
       IN <<[start |-> s.v, end |-> e.v]>> \o
          SearchRangesOf(Drop(body, s.n + e.n))

\* C26: the Response to a Get or GetNext PDU holds exactly one VarBind per
\* SearchRange of the request, in the order of the SearchRanges.
C26_OneVarBindPerSearchRange ==
  \A k \in 1..Len(served) :
    (/\ sent[k].Header.Type \in {GetPDU, GetNextPDU}
     /\ served[k].resp # <<>>)
    => LET ranges == SearchRangesOf(sent[k].Body)
           vbs == served[k].resp[1].VarBindList
       IN /\ Len(vbs) = Len(ranges)
          /\ \A j \in 1..Len(ranges) :
                \E r \in getNextVarBind(SubtreeString(ranges[j].start),
                                        sent[k].Header.Type = GetNextPDU) :
                  vbs[j] = r.vb

(***************************************************************************)
(* Claims about the Register and Unregister PDUs.                          *)
(***************************************************************************)
\* the size of an encoded Register PDU up to and including its subtree
RegisterSizeToSubtree(m) ==
  HeaderSize
  + (IF m.Context = Nil THEN 0 ELSE Len(OctetStringMarshal(m.Context[1])))
  + 4 + Len(SubtreeMarshal(m.Subtree))

\* C28: an encoded Register or Unregister PDU holds the 4-byte upper_bound
\* field exactly when its range_subid is not zero, and a message built by
\* NewRegisterMessage with an upper bound decodes to a message with the same
\* upper bound and the same subtree.
C28_UpperBoundIffRangeSubid ==
  (cin # <<>> /\ cin.op = "register" /\ ~cout.err) =>
    LET m == cout.msg
        rest == Len(cout.bytes) - RegisterSizeToSubtree(m)
    IN /\ rest = (IF m.RangeSubid # 0 THEN 4 ELSE 0)
       /\ cin.upperBound # Nil =>
            /\ ~cout.dec.err
            /\ cout.dec.m.UpperBound = cin.upperBound
            /\ cout.dec.m.Subtree = m.Subtree

(***************************************************************************)
(* Claims about the choice of the test-Set handler.                        *)
(***************************************************************************)
\* the VarBinds the master put in a TestSet payload
VarBindsOf(body) ==
  CHOOSE vbs \in SeqsUpTo({VbUnderBoth, VbUnderOne, VbUnderNone}, 2) :
    SetBody(vbs) = body

\* the calls to test-Set handlers the dispatcher made for VarBind v
TestSetCallsFor(rec, v) ==
  SelectSeq(rec.calls, LAMBDA c : c.Arg.Name = v.Name)

\* the registered test-Set keys that are a prefix of the name of v
KeysOver(v) ==
  {h \in testSetHandlers :
     IsPrefixSeq(Expand(NewSubtree(h).t), Expand(v.Name))}

\* C29: for each VarBind of a TestSet PDU exactly one test-Set handler is
\* invoked, the first in key-sorted order whose key is a prefix of the
\* VarBind's name, even when several registered keys are prefixes of it.
C29_OneTestSetHandlerPerVarBind ==
  \A k \in 1..Len(served) :
    sent[k].Header.Type = TestSetPDU =>
      LET vbs == VarBindsOf(sent[k].Body)
      IN \A j \in 1..Len(vbs) :
           LET cs == TestSetCallsFor(served[k], vbs[j])
               keys == KeysOver(vbs[j])
           IN IF keys = {} THEN cs = <<>>
              ELSE /\ Len(cs) = 1
                   /\ cs[1].Oid = Head(SortStrings(keys))

\* the same for VarBinds under at most one registered key
C29_SingleKeyOnly ==
  \A k \in 1..Len(served) :
    sent[k].Header.Type = TestSetPDU =>
      LET vbs == VarBindsOf(sent[k].Body)
      IN \A j \in 1..Len(vbs) :
           LET cs == TestSetCallsFor(served[k], vbs[j])
               keys == KeysOver(vbs[j])
           IN /\ keys = {} => cs = <<>>
              /\ Cardinality(keys) = 1 =>
                   /\ Len(cs) = 1
                   /\ cs[1].Oid = Head(SortStrings(keys))

(***************************************************************************)
(* Claims about the subtree-Get handlers in the walk of varSearch.         *)
(***************************************************************************)
\* the walk for the one start OID of the request ended with a VarBind
WalkEnded == Answered /\ Len(lastReq.SearchRangeList) = 1

\* the VarBind the walk ended with
WalkResult == wire[1].VarBindList[1]

\* the start OID of the request
WalkStart == lastReq.SearchRangeList[1]

\* the walk came to the subtree-Get handler at key k: no earlier entry of
\* the sorted list ended it
WalkReached(k) ==
  \/ WalkResult.From = <<>>
  \/ StrLess(k, WalkResult.From)
  \/ /\ WalkResult.From = k
     /\ calls[Len(calls)].Type = GetSubtreeHandlerType

\* the subtree-Get handler at key k was invoked with the start OID
SubtreeHandlerCalled(k) ==
  \E c \in 1..Len(calls) :
    /\ calls[c].Oid = k
    /\ calls[c].Type = GetSubtreeHandlerType
    /\ calls[c].Arg = WalkStart

\* a VarBind other than EndOfMibView that a subtree-Get handler returned is
\* the result, and after EndOfMibView the walk went on
SubtreeResultUsed ==
  \A c \in 1..Len(calls) :
    calls[c].Type = GetSubtreeHandlerType =>
      IF WalkResult.From = calls[c].Oid /\ c = Len(calls)
      THEN WalkResult = GetSubtreeHandlerResult(calls[c].Oid, WalkStart, "val")
      ELSE \/ c < Len(calls)
           \/ WalkResult = EndOfMibViewVarBind(WalkStart)

DecodeRanges ==
  {[start |-> s, end |-> e] :
     s \in {SubtreeOf(Oid1_2), SubtreeOf(Oid1_9), NilSubtree},
     e \in {NilSubtree, SubtreeOf(Oid2)}}

\* what a Read returns after the PDU: nothing, or the next PDU of the master
DecodeTails ==
  {<<>>,
   HeaderMarshal(MasterHeader([Type |-> GetPDU, Flags |-> NetworkByteOrder,
                               Body |-> GetBody(<<SubtreeOf(Oid1)>>)], 2, 7))
     \o GetBody(<<SubtreeOf(Oid1)>>)}

\* VarBinds of a TestSet: one of each kind of data, an Integer, an
\* OctetString and a Null
DecodeVarBinds ==
  {[Type |-> IntegerT, Name |-> SubtreeOf(Oid1_2), Data |-> 5, From |-> <<>>],
   [Type |-> OctetStringT, Name |-> SubtreeOf(Oid1_9),
    Data |-> NewOctetString(ByteString(3)), From |-> <<>>],
   [Type |-> NullT, Name |-> SubtreeOf(Oid2), Data |-> <<>>, From |-> <<>>]}

\* a Get or GetNext PDU is read into the buffer and unmarshalled
DecodeGet(t, ranges, tail) ==
  /\ cin = <<>>
  /\ LET body == SearchRangeListBody(ranges)
         h == MasterHeader([Type |-> t, Flags |-> NetworkByteOrder,
                            Body |-> body], 1, 7)
         data == HeaderMarshal(h) \o body \o tail
     IN /\ cin' = [op |-> "get", type |-> t, ranges |-> ranges,
                   tail |-> tail]
        /\ cout' = [bytes |-> data, dec |-> GetUnmarshal(data)]
  /\ UNCHANGED <<sessionVars, registryVars, getVars, setHandlerVars,
                 agentVars, writeVars>>

\* a TestSet PDU is read into the buffer and unmarshalled
DecodeSet(vbs) ==
  /\ cin = <<>>
  /\ LET body == SetBody(vbs)
         h == MasterHeader([Type |-> TestSetPDU, Flags |-> NetworkByteOrder,
                            Body |-> body], 1, 7)
         data == HeaderMarshal(h) \o body
     IN /\ cin' = [op |-> "testSet", vbs |-> vbs]
        /\ cout' = [bytes |-> data, dec |-> SetUnmarshal(data)]
  /\ UNCHANGED <<sessionVars, registryVars, getVars, setHandlerVars,
                 agentVars, writeVars>>

DecodeInit == Init

DecodeNext ==
  \/ \E t \in {GetPDU, GetNextPDU}, ranges \in SeqsUpTo(DecodeRanges, 2),
        tail \in DecodeTails : DecodeGet(t, ranges, tail)
  \/ \E vbs \in SeqsUpTo(DecodeVarBinds, 2) : DecodeSet(vbs)

DecodeSpec == DecodeInit /\ [][DecodeNext]_vars

\* the start OIDs of the SearchRanges that have subidentifiers
StartsOf(ranges) ==
  LET kept == SelectSeq(ranges, LAMBDA r : r.start.NSubid # 0)
  IN [j \in 1..Len(kept) |-> kept[j].start]

\* C32: decoding a Get or GetNext PDU yields exactly the start OIDs of the
\* SearchRanges in its payload, in order, whatever the end OIDs are, leaving
\* out the ranges whose start has n_subid 0 and taking nothing from the bytes
\* beyond header.payload_length.
C32_GetDecodesStartOids ==
  (cin # <<>> /\ cin.op = "get") =>
    /\ ~cout.dec.fault
    /\ cout.dec.m.SearchRangeList = StartsOf(cin.ranges)

\* the same for PDUs whose end OIDs are empty and that fill the Read
C32_EmptyEndsOnly ==
  (/\ cin # <<>> /\ cin.op = "get"
   /\ cin.tail = <<>>
   /\ \A j \in 1..Len(cin.ranges) : cin.ranges[j].end = NilSubtree) =>
    /\ ~cout.dec.fault
    /\ cout.dec.m.SearchRangeList = StartsOf(cin.ranges)
\* C33: decoding a TestSet PDU yields exactly the VarBinds encoded in its
\* payload, in order, for any number of VarBinds and any mix of types: every
\* VarBind starts where the one before it ended and decoding stops at the
\* end of the payload.
C33_TestSetDecodesVarBinds ==
  (cin # <<>> /\ cin.op = "testSet") =>
    /\ ~cout.dec.fault
    /\ Len(cout.dec.m.VarBindList) = Len(cin.vbs)
    /\ \A j \in 1..Len(cin.vbs) :
         /\ cout.dec.m.VarBindList[j].Type = cin.vbs[j].Type
         /\ cout.dec.m.VarBindList[j].Name = cin.vbs[j].Name
         /\ cout.dec.m.VarBindList[j].Data = cin.vbs[j].Data
(***************************************************************************)
(* DropSpec: the master sends PDUs the dispatcher has no handling for,     *)
(* among PDUs it serves, to a session with handlers installed.             *)
(***************************************************************************)
\* PDU types rootMessageHandler's switch has no case for
DefaultTypes == {GetBulkPDU, NotifyPDU, PingPDU}

\* the PDUs of the master: of a type without a case, a Response that answers
\* none of the library's requests, and a Get and a TestSet
DropPDUs ==
  {[Type |-> t, Flags |-> NetworkByteOrder, Body |-> <<>>] :
     t \in DefaultTypes}
  \cup
  {[Type |-> ResponsePDU, Flags |-> NetworkByteOrder, Body |-> Zeros(8)],
   [Type |-> GetPDU, Flags |-> NetworkByteOrder,
    Body |-> GetBody(<<SubtreeOf(Oid1)>>)],
   [Type |-> TestSetPDU, Flags |-> NetworkByteOrder,
    Body |-> SetBody(<<VbUnderBoth>>)]}

DropInit == GetInit

DropNext ==
  \/ sent = <<>> /\ OnGet(JoinDots(Oid1_2))
  \/ sent = <<>> /\ OnTestSet(JoinDots(Oid1))
  \/ sent = <<>> /\ ~commitSetHandler /\ OnCommitSet
  \/ stream = <<>> /\ \E p \in DropPDUs : MasterSend(p)
  \/ \E out \in ServeOutcomes(stream) : DispatcherServe(Len(stream), out)

DropSpec == DropInit /\ [][DropNext]_vars

\* a header the claim is about: a type other than Response, Get, GetNext,
\* TestSet, CommitSet, CleanupSet and UndoSet, or a Response whose
\* transaction id is none of the three tags
ToDrop(h) ==
  \/ h.Type \notin {ResponsePDU, GetPDU, GetNextPDU, TestSetPDU, CommitSetPDU,
                    CleanupSetPDU, UndoSetPDU}
  \/ /\ h.Type = ResponsePDU
     /\ h.TransactionId \notin {CloseTransactionId, RegisterTransactionId,
                                UnregisterTransactionId}

\* the dispatcher has just dealt with a PDU of the master that is to be
\* dropped
DropStep ==
  /\ Len(served') = Len(served) + 1
  /\ ~served'[Len(served')].hdrErr
  /\ ToDrop(served'[Len(served')].hdr)

\* C34: an inbound PDU of a type other than Response, Get, GetNext, TestSet,
\* CommitSet, CleanupSet and UndoSet, and a Response whose transaction id is
\* none of the three tags, is dropped: no handler is invoked, no PDU is sent,
\* registrations and the handler registry are unchanged and the read loop
\* goes on.
C34_UnknownPduDropped ==
  [][DropStep =>
       /\ served'[Len(served')].calls = <<>>
       /\ served'[Len(served')].resp = <<>>
       /\ wire' = wire
       /\ registrations' = registrations
       /\ registryVars' = registryVars
       /\ setHandlerVars' = setHandlerVars
       /\ dpc' = "recv" /\ conn' = conn /\ closed' = closed]_vars

\* a Ping was dropped by a session with handlers and the Get after it was
\* answered
C34_Witness ==
  /\ Len(served) = 2
  /\ served[1].hdr.Type = PingPDU
  /\ getHandlers # {} /\ testSetHandlers # {} /\ commitSetHandler
  /\ served[2].hdr.Type = GetPDU
  /\ served[2].resp # <<>>
(***************************************************************************)
(* AnswerSpec: one caller registers and the other unregisters an OID in an *)
(* open session, the master answers the requests and sends a Get, the      *)
(* dispatcher serves.                                                      *)
(***************************************************************************)
\* p.Error of the master's Response: zero, and a code that is not zero
AnswerErrors == {0, 267}

\* the Register and Unregister PDUs among what the library has written
RequestsOnWire ==
  {k \in DOMAIN wire :
     /\ "Type" \in DOMAIN wire[k]
     /\ wire[k].Type \in {RegisterPDU, UnregisterPDU}}

\* the master answers the k-th PDU the library sent: a Response that echoes
\* its transaction id and packet id
MasterRespond(k, err) ==
  /\ connState = "ok" /\ conn = "open"
  /\ Len(sent) < MaxPDUs
  /\ k \in RequestsOnWire
  /\ LET h == [Version |-> 1, Type |-> ResponsePDU,
               Flags |-> NetworkByteOrder, Reserved |-> 0,
               SessionId |-> sessionId,
               TransactionId |-> wire[k].TransactionId,
               PacketId |-> wire[k].PacketId, PayloadLength |-> 8]
         body == Zeros(4) \o BE16(err) \o Zeros(2)
     IN /\ sent' = Append(sent, [Header |-> h, Body |-> body])
        /\ stream' = stream \o HeaderMarshal(h) \o body
  /\ UNCHANGED <<sessionVars, registryVars, getVars, codecVars,
                 setHandlerVars, served, writeVars>>

AnswerInit == GetInit

AnswerNext ==
  \/ sent = <<>> /\ nops = 0 /\ OnGet(JoinDots(Oid1_2))
  \/ \E i \in Callers : RegisterStart(i, JoinDots(Oid1_2), i # 1)
  \/ \E i \in Callers : RegisterAppendRead(i)
  \/ \E i \in Callers : RegisterAppendWrite(i)
  \/ \E i \in Callers : RegisterSend(i)
  \/ stream = <<>> /\ \E k \in DOMAIN wire, err \in AnswerErrors :
        MasterRespond(k, err)
  \/ stream = <<>> /\ MasterSend([Type |-> GetPDU, Flags |-> NetworkByteOrder,
                                  Body |-> GetBody(<<SubtreeOf(Oid1)>>)])
  \/ \E out \in ServeOutcomes(stream) : DispatcherServe(Len(stream), out)

AnswerSpec == AnswerInit /\ [][AnswerNext]_vars

\* the dispatcher has just handled a Response to a Register or Unregister
\* request whose packet id indexes registrations
AnswerStep ==
  /\ Len(served') = Len(served) + 1
  /\ LET h == served'[Len(served')].hdr
     IN /\ ~served'[Len(served')].hdrErr
        /\ h.Type = ResponsePDU
        /\ h.TransactionId \in {RegisterTransactionId, UnregisterTransactionId}
        /\ h.PacketId >= 0 /\ h.PacketId < Len(registrations)

RegistryRead(type) ==
  IF type \in {GetPDU, GetNextPDU} THEN <<getHandlers, getSubtreeHandlers>>
  ELSE IF type = TestSetPDU THEN <<testSetHandlers>>
  ELSE IF type = CommitSetPDU THEN <<commitSetHandler>>
  ELSE IF type = CleanupSetPDU THEN <<cleanupSetHandler>>
  ELSE <<>>

\* the requests of the master
InstallPDUs ==
  {[Type |-> GetPDU, Flags |-> NetworkByteOrder,
    Body |-> GetBody(<<SubtreeOf(Oid1)>>)],
   [Type |-> TestSetPDU, Flags |-> NetworkByteOrder,
    Body |-> SetBody(<<VbUnderBoth>>)],
   [Type |-> CommitSetPDU, Flags |-> NetworkByteOrder, Body |-> <<>>],
   [Type |-> CleanupSetPDU, Flags |-> NetworkByteOrder, Body |-> <<>>]}

\* the dispatcher has read a request and starts on the handler map or slot
DispatcherReadRegistry ==
  /\ connState = "ok" /\ ~Crashed
  /\ dpc = "recv" /\ conn = "open"
  /\ lastReq = <<>>
  /\ Len(stream) >= HeaderSize
  /\ LET type == HeaderUnmarshal(stream).v.Type
     IN lastReq' = [Type |-> type, seen |-> RegistryRead(type)]
  /\ UNCHANGED <<sessionVars, registryVars, calls, codecVars, setHandlerVars,
                 agentVars, writeVars>>

\* an unsynchronised write to a map or slot that is being read is a data
\* race: the Go runtime may end the process with a fatal error
RaceOutcomes ==
  IF lastReq # <<>> /\ RegistryRead(lastReq.Type) # lastReq.seen
  THEN {Served(Len(stream), HeaderUnmarshal(stream).v, <<>>, <<>>, TRUE)}
  ELSE {}

\* the dispatcher finishes the request with the handlers it finds
DispatcherServeRead(out) ==
  /\ connState = "ok" /\ ~Crashed
  /\ dpc = "recv" /\ conn = "open"
  /\ lastReq # <<>>
  /\ out \in ServeOutcomes(stream) \cup RaceOutcomes
  /\ stream' = <<>>
  /\ served' = Append(served, out @@ [left |-> 0])
  /\ wire' = IF out.resp # <<>> THEN SendMsgWire(out.resp[1]) ELSE wire
  /\ dpc' = IF out.fault THEN "panic" ELSE "recv"
  /\ lastReq' = <<>>
  /\ UNCHANGED <<connState, conn, sessionId, registrations, closed,
                 closedSignals, callers, peerClosed, nops, openOutcome, sent>>
  /\ UNCHANGED <<registryVars, calls, codecVars, setHandlerVars, writeVars>>

InstallInit == Init

InstallNext ==
  \/ \E o \in ConnectOutcomes, sid \in SessionIds : Connect(o, sid)
  \/ OnGet(JoinDots(Oid1_2))
  \/ OnGetSubtree(JoinDots(Oid2))
  \/ OnTestSet(JoinDots(Oid1))
  \/ OnCommitSet
  \/ OnCleanupSet
  \/ stream = <<>> /\ \E p \in InstallPDUs : MasterSend(p)
  \/ DispatcherReadRegistry
  \/ \E out \in ServeOutcomes(stream) \cup RaceOutcomes :
        DispatcherServeRead(out)

InstallSpec == InstallInit /\ [][InstallNext]_vars

\* C36: no OnGet, OnGetSubtree, OnTestSet, OnCommitSet or OnCleanupSet call
\* writes a handler map or slot while the dispatcher is reading the same map
\* or slot to serve a request.
C36_NoInstallWhileServing ==
  [][(lastReq # <<>> /\ lastReq' = lastReq) =>
       RegistryRead(lastReq.Type)' = RegistryRead(lastReq.Type)]_vars

(***************************************************************************)
(* The closed event and the closed flag.                                   *)
(***************************************************************************)
\* C37: once a caller has received the closed event from c.Closed, no
\* Disconnect, Register or Unregister issued afterwards writes a PDU to the
\* socket: the closed flag is set by then and sendMsg refuses.
C37_NoWriteAfterClosedEvent ==
  [][closedSignals > 0 => wire' = wire]_vars
\* C38: once the dispatcher has handled the master's Response to Close (the
\* socket closed, the closed event delivered, the closed flag set), its read
\* loop has ended: it is not back at recvMsg on the closed socket.
C38_LoopEndsAfterCloseResponse ==
  (conn = "closed" /\ closedSignals > 0 /\ closed) => dpc = "returned"
(***************************************************************************)
(* TestSetSpec: one test-Set handler, at 1, and TestSet PDUs whose         *)
(* VarBinds lie under it, outside it, or some of each.                     *)
(***************************************************************************)
TestSetMixes == {<<VbUnderOne>>, <<VbUnderNone>>, <<VbUnderNone, VbUnderOne>>,
                 <<VbUnderOne, VbUnderNone>>}

TestSetPDUs ==
  {[Type |-> TestSetPDU, Flags |-> NetworkByteOrder, Body |-> SetBody(vbs)] :
     vbs \in TestSetMixes}

TestSetInit == GetInit

TestSetNext ==
  \/ sent = <<>> /\ OnTestSet(JoinDots(Oid1))
  \/ stream = <<>> /\ \E p \in TestSetPDUs : MasterSend(p)
  \/ \E out \in ServeOutcomes(stream) : DispatcherServe(Len(stream), out)

TestSetSpec == TestSetInit /\ [][TestSetNext]_vars

\* C39: a TestSet Response carries NoError only if every VarBind of the
\* request was matched by some test-Set handler and every handler invoked
\* returned NoError.
C39_NoErrorOnlyIfAllMatched ==
  \A k \in 1..Len(served) :
    (/\ sent[k].Header.Type = TestSetPDU
     /\ served[k].resp # <<>>
     /\ served[k].resp[1].Error = TestSetNoError)
    => LET vbs == VarBindsOf(sent[k].Body)
           rs == ResultsOf(served[k])
       IN /\ \A j \in 1..Len(vbs) : KeysOver(vbs[j]) # {}
          /\ \A j \in 1..Len(rs) : rs[j] = TestSetNoError
(***************************************************************************)
(* Start OIDs shorter than a subtree-Get key.                              *)
(***************************************************************************)
\* C40: a Get or GetNext whose start OID, as a dotted string, is shorter
\* than the key of a registered subtree-Get handler is resolved without a
\* fault in varSearch and answered with one Response.
C40_ShortStartOidAnswered ==
  (/\ lastReq # <<>>
   /\ Len(lastReq.SearchRangeList) = 1
   /\ \E k \in getSubtreeHandlers :
        Len(SubtreeString(lastReq.SearchRangeList[1])) < Len(k))
  => /\ dpc = "recv"
     /\ Len(wire) = 1
     /\ wire[1].Header.Type = ResponsePDU

====
